---- MODULE Spec2Model ----
(***************************************************************************)
(* Paper-trading ledger of NorthstarCapital (src/server/db.py and          *)
(* src/server/tools/paper_tools.py) as a state machine.                    *)
(*                                                                         *)
(* The tables paper_portfolios, paper_cash_ledger, paper_trade_proposals,  *)
(* paper_trades and paper_positions hold the committed rows.  Every db     *)
(* function opens its own transaction (engine.begin()) on a PostgreSQL     *)
(* engine at the default READ COMMITTED level: each SQL statement reads    *)
(* the rows committed when the statement starts, a transaction's own       *)
(* writes become visible to the others at its commit, and a write to a row *)
(* another open transaction has written waits for that transaction to end. *)
(* approve_paper_trade_proposal runs several statements with two HTTP      *)
(* calls in between, so it is modelled statement by statement per request  *)
(* thread; the single-statement functions are one atomic action each.      *)
(*                                                                         *)
(* Quantities, prices and cash are floats in the source; here they are     *)
(* integers and avg_cost is an exact fraction [n, d] in lowest terms       *)
(* (floating-point rounding is not modelled).                              *)
(***************************************************************************)
EXTENDS Integers, Sequences, FiniteSets, TLC

(* ---------------------------- bounds ----------------------------------- *)
MaxPortfolios == 1
MaxLedger == 1
MaxProposals == 2
MaxRows == 1
(* approvals explored: a priced approve call starts only while the trades   *)
(* recorded plus the calls in flight stay below MaxTrades                   *)
MaxTrades == 2
(* SpecFrame: proposals made and approvals explored on top of its two       *)
(* earlier trades                                                           *)
MaxFrameProposals == 3
MaxFrameTrades == 3
(* SpecHttp: ticks the clock runs, outbound requests made *)
MaxTicks == 6
MaxSent == 3
(* SpecList: how many items more than the limit a source list has *)
MaxOver == 2
(* SpecSummary: proposals made and trades recorded after the seeded ones *)
MaxSummaryProposals == 1
MaxSummaryTrades == 1
(* SpecTrim: the longest chat history *)
MaxHistory == 22

(* ---------------------------- input sets ------------------------------- *)
Threads == {1, 2}
Symbols == {"ABC"}
Sides == {"buy", "sell"}
Quantities == {5, 10}
QuotePrices == {100, 200}
StartingCash == {3000}
CashAmounts == {2000}
(* the quote sources also list a symbol nobody trades *)
FeedSymbols == Symbols \cup {"XYZ"}

(* Python None is <<>> and a value v is <<v>>. *)
None == <<>>
Some(v) == <<v>>
Val(o) == o[1]

(* http_client: time is counted in ticks of 0.2 s.  The settings of a call  *)
(* (config.py): an interval of 0.6 s between requests to a host, the        *)
(* default backoff base of 0.4 s; random.uniform(0, 0.2) is 0 or 1 tick.    *)
rate_limit_min_interval == 3
http_retry_backoff_seconds == 2
Jitter == {0, 1}
StartTime == 10
RetryStatuses == {429, 500, 502, 503, 504}
Statuses == {200, 503}
RetryCounts == {0, 1, 2}
Ttls == {0, 3}
Urls == {"h1/a"}
Hosts == {"h1"}
(* urlparse(url).netloc *)
Netloc(url) == "h1"
(* _cache_key(method, url, params): (method.upper(), url, params_str), the  *)
(* params_str being "&".join(f"{k}={params[k]}" for k in sorted(params)), a  *)
(* text held as the sequence of its characters.  A params mapping gives      *)
(* some of the names "a", "b" a text.                                        *)
Upper(method) ==
    CASE method = "get" -> "GET"
      [] method = "post" -> "POST"
      [] OTHER -> method
SortedNames == <<"a", "b">>
RECURSIVE JoinFrom(_, _, _)
JoinFrom(params, i, first) ==
    IF i > Len(SortedNames) THEN <<>>
    ELSE IF SortedNames[i] \notin DOMAIN params THEN JoinFrom(params, i + 1, first)
    ELSE (IF first THEN <<>> ELSE <<"&">>)
            \o <<SortedNames[i], "=">> \o params[SortedNames[i]]
            \o JoinFrom(params, i + 1, FALSE)
NoParams == <<>>
_cache_key(method, url, params) == <<Upper(method), url, JoinFrom(params, 1, TRUE)>>
CacheKeys == {_cache_key("GET", u, NoParams) : u \in Urls}

VARIABLES
    portfolios,   \* paper_portfolios, id = index
    ledger,       \* paper_cash_ledger
    proposals,    \* paper_trade_proposals, id = index
    trades,       \* paper_trades in commit order, id = index
    positions,    \* paper_positions, one row per (portfolio_id, symbol)
    call,         \* per request thread: the approve call it is in
    ret,          \* the response returned in the last step
    tradeOrigin,  \* history: the proposal whose approval recorded trade i
    oracle,       \* history: running cash total per portfolio
    returned,     \* history: per proposal, the 'approved' and 'rejected' returns
    unavailable,  \* history (SpecRetry only): proposals that got price_unavailable
    dispatched,   \* the last dispatch_tool call and what it did
    now,          \* time.time(), in ticks
    _cache,       \* http_client._cache: key -> (expires, response)
    _last_request, \* http_client._last_request: host -> time
    _rate_lock,   \* the thread holding http_client._rate_lock, 0 if free
    sent,         \* history: the outbound requests, [host, time, t]
    hcall,        \* per thread: the http_get call it is in
    hret,         \* what the http_get call that ended in the last step gave
    settings,     \* config.Settings: http_retry_count
    chat,         \* the POST /nepse/chat request being served
    listing,      \* a list tool's source data and what the dispatcher returned
    schema,       \* llm_agent: an input_schema and the args model built from it
    trimmed,      \* llm_agent: a chat history and what _trim_history kept of it
    keyed,        \* http_client: two requests and the cache keys built for them
    quoted        \* the quote sources' content and the prices propose and approve take

(* what the ledger operations leave alone, and what the others leave alone *)
httpVars == <<now, _cache, _last_request, _rate_lock, sent, hcall, hret, settings>>
agentVars == <<schema, trimmed, keyed, quoted>>
chatVars == <<chat, listing, agentVars>>
nonLedger == <<dispatched, httpVars, chatVars>>
ledgerVars == <<portfolios, ledger, proposals, trades, positions, call, ret,
                tradeOrigin, oracle, returned, unavailable>>
vars == <<ledgerVars, nonLedger>>
nonHttp == <<ledgerVars, dispatched, chatVars>>
tables == <<portfolios, ledger, proposals, trades, positions>>

(* ---------------------------- fractions -------------------------------- *)
RECURSIVE Gcd(_, _)
Gcd(a, b) == IF b = 0 THEN a ELSE Gcd(b, a % b)

Abs(x) == IF x < 0 THEN -x ELSE x

Frac(n, d) ==
    LET g == Gcd(Abs(n), Abs(d))
    IN  IF n = 0 THEN [n |-> 0, d |-> 1] ELSE [n |-> n \div g, d |-> d \div g]

FracOfInt(i) == [n |-> i, d |-> 1]

(* ---------------------------- quote sources ---------------------------- *)
(* A quote source returns a list of rows {symbol, lastTradedPrice}.        *)
FeedRows == [symbol : FeedSymbols, lastTradedPrice : {None} \cup {Some(v) : v \in QuotePrices}]
Feeds == UNION {[1..n -> FeedRows] : n \in 0..MaxRows}
(* proposed_price is stored by propose and read by no ledger operation, so  *)
(* the ledger is explored with the quote sources empty at propose time.     *)
FeedsAtPropose == {<<>>}

(* for row in feed: if row.get("symbol") == symbol: price = ...; break     *)
RECURSIVE FirstMatch(_, _, _)
FirstMatch(feed, symbol, i) ==
    IF i > Len(feed) THEN 0
    ELSE IF feed[i].symbol = symbol THEN i
    ELSE FirstMatch(feed, symbol, i + 1)

LoopPrice(feed, symbol) ==
    LET i == FirstMatch(feed, symbol, 1)
    IN  IF i = 0 THEN None ELSE feed[i].lastTradedPrice

_symbol_price(live, secondary, symbol) ==
    IF FirstMatch(live, symbol, 1) # 0
    THEN live[FirstMatch(live, symbol, 1)].lastTradedPrice
    ELSE IF FirstMatch(secondary, symbol, 1) # 0
    THEN secondary[FirstMatch(secondary, symbol, 1)].lastTradedPrice
    ELSE None

(* ---------------------------- table queries ---------------------------- *)
RECURSIVE SumLedger(_, _, _)
SumLedger(rows, id, i) ==
    IF i > Len(rows) THEN 0
    ELSE (IF rows[i].portfolio_id = id THEN rows[i].amount ELSE 0)
         + SumLedger(rows, id, i + 1)

RECURSIVE SumTrades(_, _, _, _)
SumTrades(rows, id, side, i) ==
    IF i > Len(rows) THEN 0
    ELSE (IF rows[i].portfolio_id = id /\ rows[i].side = side
          THEN rows[i].amount ELSE 0)
         + SumTrades(rows, id, side, i + 1)

StartingOf(id) == IF id \in 1..Len(portfolios) THEN portfolios[id].starting_cash ELSE 0

(* The four SELECTs of get_paper_cash_balance. *)
LedgerSum(id) == SumLedger(ledger, id, 1)
BuysSum(id) == SumTrades(trades, id, "buy", 1)
SellsSum(id) == SumTrades(trades, id, "sell", 1)

CashTotal(starting, ledger_sum, buys, sells) == starting + ledger_sum - buys + sells

get_paper_cash_balance(id) ==
    CashTotal(StartingOf(id), LedgerSum(id), BuysSum(id), SellsSum(id))

PosRows(id, symbol) == {r \in positions : r.portfolio_id = id /\ r.symbol = symbol}
HasPos(id, symbol) == PosRows(id, symbol) # {}
PosRow(id, symbol) == CHOOSE r \in PosRows(id, symbol) : TRUE

(* ---------------------------- request threads -------------------------- *)
(* call[t] holds the local variables of the approve call thread t is in.   *)
Idle ==
    [pc |-> "idle", id |-> 0, portfolio_id |-> 0, symbol |-> "", side |-> "",
     quantity |-> 0, price |-> 0, ledger_sum |-> 0, buys |-> 0, op |-> "none",
     new_qty |-> 0,
     new_cost |-> FracOfInt(0), prev_qty |-> 0, prev_cost |-> FracOfInt(0),
     locked |-> FALSE]

(* ret is the response of the approve or reject call that returned in the  *)
(* last step, NoReturn after any other step.                               *)
NoReturn == [op |-> "none", id |-> 0, status |-> "none"]

NoDispatch == [name |-> "", arguments |-> <<>>, raised |-> "none", invoked |-> "none"]

(* the empty database, no call in progress *)
LedgerInit ==
    /\ portfolios = <<>>
    /\ ledger = <<>>
    /\ proposals = <<>>
    /\ trades = <<>>
    /\ positions = {}
    /\ call = [t \in Threads |-> Idle]
    /\ ret = NoReturn
    /\ tradeOrigin = <<>>
    /\ oracle = <<>>
    /\ returned = <<>>
    /\ unavailable = {}

(* http_client at import: empty cache, no request made, lock free.  The     *)
(* clock shows some time later than any interval after the epoch.          *)
HttpIdle ==
    [pc |-> "idle", url |-> "", ttl |-> 0, retries |-> 0, attempt |-> 0,
     wake |-> 0, response |-> None, made |-> 0]
NoHret ==
    [t |-> 0, url |-> "", outcome |-> "none", response |-> None, cached |-> FALSE,
     made |-> 0]

HttpStart ==
    /\ now = StartTime
    /\ _cache = [k \in CacheKeys |-> None]
    /\ _last_request = [h \in Hosts |-> 0]
    /\ _rate_lock = 0
    /\ sent = <<>>
    /\ hcall = [t \in Threads |-> HttpIdle]
    /\ hret = NoHret

HttpInit ==
    /\ settings = [http_retry_count |-> 2]
    /\ HttpStart

(* no chat request being served, no list tool called *)
NoChat ==
    [pc |-> "none", request |-> <<>>, invocations |-> <<>>, results |-> <<>>,
     outcome |-> "none", detail |-> <<>>]
NoListing == [name |-> "", data |-> <<>>, result |-> None]

NoSchema == [input_schema |-> <<>>, model |-> None]
NoTrim == [history |-> <<>>, kept |-> None]
NoKeys == [requests |-> <<>>, keys |-> None]
NoQuotes == [live |-> <<>>, secondary |-> <<>>, symbol |-> "", prices |-> None]

AgentInit ==
    /\ schema = NoSchema
    /\ trimmed = NoTrim
    /\ keyed = NoKeys
    /\ quoted = NoQuotes

ChatInit ==
    /\ chat = NoChat
    /\ listing = NoListing
    /\ AgentInit

Init ==
    /\ LedgerInit
    /\ dispatched = NoDispatch
    /\ HttpInit
    /\ ChatInit

(* ---------------------------- single-statement operations -------------- *)
create_paper_portfolio(starting_cash) ==
    /\ Len(portfolios) < MaxPortfolios
    /\ portfolios' = Append(portfolios, [starting_cash |-> starting_cash])
    /\ oracle' = Append(oracle, starting_cash)
    /\ ret' = NoReturn
    /\ UNCHANGED <<ledger, proposals, trades, positions, call, tradeOrigin, returned, unavailable, nonLedger>>

add_paper_cash_ledger(id, amount) ==
    /\ Len(ledger) < MaxLedger
    /\ id \in 1..Len(portfolios)
    /\ ledger' = Append(ledger, [portfolio_id |-> id, amount |-> amount])
    /\ oracle' = [oracle EXCEPT ![id] = @ + amount]
    /\ ret' = NoReturn
    /\ UNCHANGED <<portfolios, proposals, trades, positions, call, tradeOrigin, returned, unavailable, nonLedger>>

create_paper_trade_proposal(id, symbol, side, quantity, proposed_price) ==
    /\ proposals' = Append(proposals,
          [portfolio_id |-> id, symbol |-> symbol, side |-> side,
           quantity |-> quantity, proposed_price |-> proposed_price,
           status |-> "pending", executed_trade_id |-> None,
           executed_price |-> None])
    /\ returned' = Append(returned, [approved |-> 0, rejected |-> 0])
    /\ ret' = NoReturn
    /\ UNCHANGED <<portfolios, ledger, trades, positions, call, tradeOrigin, oracle, unavailable, nonLedger>>

paper_trade_propose(id, symbol, side, quantity) ==
    /\ id \in 1..Len(portfolios)
    /\ \E live \in FeedsAtPropose, secondary \in FeedsAtPropose :
          create_paper_trade_proposal(id, symbol, side, quantity,
                                      _symbol_price(live, secondary, symbol))

(* UPDATE paper_trade_proposals SET status = 'rejected'                      *)
(* WHERE id = :id AND status = 'pending'; "rejected" if updated else         *)
(* "not_found".                                                              *)
RejectMatches(id) == id \in 1..Len(proposals) /\ proposals[id].status = "pending"

reject_paper_trade_proposal(id) ==
    LET updated == RejectMatches(id)
    IN  /\ proposals' = IF updated
                        THEN [proposals EXCEPT ![id].status = "rejected"]
                        ELSE proposals
        /\ returned' = IF updated
                       THEN [returned EXCEPT ![id].rejected = @ + 1]
                       ELSE returned
        /\ ret' = [op |-> "reject", id |-> id,
                   status |-> IF updated THEN "rejected" ELSE "not_found"]
        /\ UNCHANGED <<portfolios, ledger, trades, positions, call, tradeOrigin, oracle, unavailable, nonLedger>>

(* paper_tools.paper_trade_reject(settings, proposal_id) and the route       *)
(* POST /paper/trades/{proposal_id}/reject, which calls                      *)
(* paper_trade_reject(proposal_id).  A call that does not supply every       *)
(* parameter raises TypeError before the body runs.                          *)
paper_trade_reject_params == <<"settings", "proposal_id">>

Binds(params, args) == Len(args) = Len(params)

paper_trade_reject_endpoint(proposal_id) ==
    IF Binds(paper_trade_reject_params, <<proposal_id>>)
    THEN reject_paper_trade_proposal(proposal_id)
    ELSE /\ ret' = [op |-> "reject", id |-> proposal_id, status |-> "exception"]
         /\ UNCHANGED <<tables, call, tradeOrigin, oracle, returned, unavailable, nonLedger>>

(* ---------------------------- approve_paper_trade_proposal ------------- *)
Return(t, status) ==
    /\ call' = [call EXCEPT ![t] = Idle]
    /\ ret' = [op |-> "approve", id |-> call[t].id, status |-> status]

SelectAnyStatus(id) == id \in 1..Len(proposals)

(* SELECT id, portfolio_id, symbol, side, quantity                           *)
(* FROM paper_trade_proposals WHERE id = :id AND status = 'pending'          *)
SelectPending(id) == id \in 1..Len(proposals) /\ proposals[id].status = "pending"

InFlight == Cardinality({u \in Threads : call[u].pc # "idle"})

ApprovePriced(t, id, price) ==
    /\ call' = [call EXCEPT ![t] =
          [Idle EXCEPT !.pc = "cash_ledger", !.id = id,
                       !.portfolio_id = proposals[id].portfolio_id,
                       !.symbol = proposals[id].symbol,
                       !.side = proposals[id].side,
                       !.quantity = proposals[id].quantity,
                       !.price = price]]
    /\ ret' = NoReturn

ApprovePriceAnyRow(live, secondary, symbol) ==
    IF live # <<>> /\ live[1].lastTradedPrice # None
    THEN live[1].lastTradedPrice
    ELSE IF secondary # <<>> THEN secondary[1].lastTradedPrice ELSE None

(* price = None; the loop over nepse_live_market; if price is None: the loop *)
(* over nepse_price_volume.                                                  *)
ApprovePrice(live, secondary, symbol) ==
    IF LoopPrice(live, symbol) # None
    THEN LoopPrice(live, symbol)
    ELSE LoopPrice(secondary, symbol)

(* The SELECT of the pending proposal and the two quote lookups that follow  *)
(* it.  The lookups read nothing of the database and the transaction has     *)
(* written nothing yet, so they are taken in the same step as the SELECT.    *)
(* The secondary source is only asked when the live one gave no price.       *)
BeginCallFrom(t, id, feeds) ==
    /\ call[t].pc = "idle"
    /\ IF ~SelectPending(id)
       THEN /\ call' = call
            /\ ret' = [op |-> "approve", id |-> id, status |-> "not_found"]
       ELSE \E live \in feeds :
              \E secondary \in IF LoopPrice(live, proposals[id].symbol) # None
                                THEN {<<>>} ELSE feeds :
                 LET price == ApprovePrice(live, secondary, proposals[id].symbol)
                 IN  IF price = None
                     THEN /\ call' = call
                          /\ ret' = [op |-> "approve", id |-> id,
                                     status |-> "price_unavailable"]
                     ELSE ApprovePriced(t, id, Val(price))
    /\ UNCHANGED <<tables, tradeOrigin, oracle, returned>>

BeginCall(t, id) == BeginCallFrom(t, id, Feeds)

(* The bound on approvals: a call that found a price goes on only while the *)
(* trades recorded plus the calls in flight stay below max.                 *)
WithinTrades(t, max) == call'[t].pc # "idle" => Len(trades) + InFlight < max

ApproveBegin(t, id) ==
    /\ BeginCall(t, id)
    /\ WithinTrades(t, MaxTrades)
    /\ UNCHANGED <<unavailable, nonLedger>>

(* SpecRetry: one call at a time, remembering the proposals whose approve    *)
(* returned price_unavailable.                                               *)
ApproveBeginTracked(t, id) ==
    /\ InFlight = 0
    /\ BeginCall(t, id)
    /\ WithinTrades(t, MaxTrades)
    /\ unavailable' = IF ret'.status = "price_unavailable"
                      THEN unavailable \cup {id} ELSE unavailable
    /\ UNCHANGED nonLedger

(* nepse_live_market / nepse_price_volume raise (raise_for_status, a failed  *)
(* request): the exception leaves approve and the transaction rolls back.    *)
ApproveQuoteRaises(t, id) ==
    /\ call[t].pc = "idle"
    /\ SelectPending(id)
    /\ call' = call
    /\ ret' = [op |-> "approve", id |-> id, status |-> "exception"]
    /\ UNCHANGED <<tables, tradeOrigin, oracle, returned, unavailable, nonLedger>>

(* get_paper_cash_balance, called by approve on a connection of its own:     *)
(* each SELECT reads what is committed when it runs.  starting_cash never    *)
(* changes, so its SELECT is not a step of its own.                          *)
(* SELECT COALESCE(SUM(amount), 0) FROM paper_cash_ledger                    *)
CashLedger(t) ==
    /\ call[t].pc = "cash_ledger"
    /\ call' = [call EXCEPT ![t].pc = "cash_buys",
                            ![t].ledger_sum = LedgerSum(call[t].portfolio_id)]
    /\ ret' = NoReturn
    /\ UNCHANGED <<tables, tradeOrigin, oracle, returned, unavailable, nonLedger>>

(* get_paper_cash_balance: SELECT SUM(amount) ... side = 'buy'               *)
CashBuys(t) ==
    /\ call[t].pc = "cash_buys"
    /\ call' = [call EXCEPT ![t].pc = "cash_sells",
                            ![t].buys = BuysSum(call[t].portfolio_id)]
    /\ ret' = NoReturn
    /\ UNCHANGED <<tables, tradeOrigin, oracle, returned, unavailable, nonLedger>>

InsufficientCashUnitPrice(side, cash, quantity, price) ==
    side = "buy" /\ cash < price

(* if side == "buy" and cash < quantity * price: insufficient_cash           *)
InsufficientCash(side, cash, quantity, price) ==
    side = "buy" /\ cash < quantity * price

(* The balance a call at its last SELECT computes from its three reads.      *)
CashRead(t) ==
    CashTotal(StartingOf(call[t].portfolio_id), call[t].ledger_sum, call[t].buys,
              SellsSum(call[t].portfolio_id))

(* get_paper_cash_balance: SELECT SUM(amount) ... side = 'sell', then the    *)
(* cash check of approve.                                                    *)
CashSells(t) ==
    /\ call[t].pc = "cash_sells"
    /\ IF InsufficientCash(call[t].side, CashRead(t), call[t].quantity, call[t].price)
       THEN Return(t, "insufficient_cash")
       ELSE /\ call' = [call EXCEPT ![t].pc = "apply_select",
                                    ![t].ledger_sum = 0, ![t].buys = 0]
            /\ ret' = NoReturn
    /\ UNCHANGED <<tables, tradeOrigin, oracle, returned, unavailable, nonLedger>>

(* _apply_paper_trade: INSERT INTO paper_trades (buffered until commit),     *)
(* SELECT quantity, avg_cost FROM paper_positions, then the new position.    *)
BuyQuantity(prev_qty, quantity) == prev_qty + quantity

BuyCostMidpoint(prev_qty, prev_cost, quantity, price) ==
    Frac(prev_cost.n + price * prev_cost.d, 2 * prev_cost.d)

(* new_cost = ((prev_qty * prev_cost) + (quantity * price)) / new_qty        *)
(* if new_qty else 0.0                                                       *)
BuyCost(prev_qty, prev_cost, quantity, price) ==
    LET new_qty == BuyQuantity(prev_qty, quantity)
    IN  IF new_qty # 0
        THEN Frac(prev_qty * prev_cost.n + quantity * price * prev_cost.d,
                  prev_cost.d * new_qty)
        ELSE FracOfInt(0)

Max(a, b) == IF a > b THEN a ELSE b

SellQuantityUnclamped(prev_qty, quantity) == prev_qty - quantity

(* new_qty = max(prev_qty - quantity, 0.0) *)
SellQuantity(prev_qty, quantity) == Max(prev_qty - quantity, 0)

ApplySelect(t) ==
    /\ call[t].pc = "apply_select"
    /\ LET c == call[t]
           pos == HasPos(c.portfolio_id, c.symbol)
           prev_qty == IF pos THEN PosRow(c.portfolio_id, c.symbol).quantity ELSE 0
           prev_cost == IF pos THEN PosRow(c.portfolio_id, c.symbol).avg_cost
                        ELSE FracOfInt(0)
       IN  call' = [call EXCEPT ![t] =
              IF c.side = "buy"
              THEN [c EXCEPT !.pc = "apply_write", !.op = "upsert",
                             !.prev_qty = prev_qty, !.prev_cost = prev_cost,
                             !.new_qty = BuyQuantity(prev_qty, c.quantity),
                             !.new_cost = BuyCost(prev_qty, prev_cost, c.quantity, c.price)]
              ELSE [c EXCEPT !.pc = "apply_write",
                             !.op = IF SellQuantity(prev_qty, c.quantity) = 0
                                    THEN "delete" ELSE "update",
                             !.prev_qty = prev_qty,
                             !.new_qty = SellQuantity(prev_qty, c.quantity)]]
    /\ ret' = NoReturn
    /\ UNCHANGED <<tables, tradeOrigin, oracle, returned, unavailable, nonLedger>>

(* The INSERT .. ON CONFLICT DO UPDATE, DELETE or UPDATE on paper_positions. *)
(* It waits while another open transaction has written the same row; a      *)
(* DELETE or UPDATE that finds no committed row affects nothing.             *)
RowLockedByOther(t, id, symbol) ==
    \E u \in Threads \ {t} :
        call[u].locked /\ call[u].portfolio_id = id /\ call[u].symbol = symbol

ApplyWrite(t) ==
    /\ call[t].pc = "apply_write"
    /\ ~RowLockedByOther(t, call[t].portfolio_id, call[t].symbol)
    /\ call' = [call EXCEPT ![t] =
          IF call[t].op = "upsert" \/ HasPos(call[t].portfolio_id, call[t].symbol)
          THEN [@ EXCEPT !.pc = "commit", !.locked = TRUE]
          ELSE [@ EXCEPT !.pc = "commit", !.op = "none"]]
    /\ ret' = NoReturn
    /\ UNCHANGED <<tables, tradeOrigin, oracle, returned, unavailable, nonLedger>>

WritePositionAnySymbol(c) ==
    CASE c.op = "upsert" ->
           (positions \ PosRows(c.portfolio_id, c.symbol))
              \cup {[portfolio_id |-> c.portfolio_id, symbol |-> c.symbol,
                     quantity |-> c.new_qty, avg_cost |-> c.new_cost]}
      [] c.op = "delete" -> positions \ PosRows(c.portfolio_id, c.symbol)
      [] c.op = "update" ->
           {IF r.portfolio_id = c.portfolio_id
            THEN [r EXCEPT !.quantity = c.new_qty] ELSE r : r \in positions}
      [] OTHER -> positions

WritePosition(c) ==
    LET others == positions \ PosRows(c.portfolio_id, c.symbol)
    IN  CASE c.op = "upsert" ->
               others \cup {[portfolio_id |-> c.portfolio_id, symbol |-> c.symbol,
                             quantity |-> c.new_qty, avg_cost |-> c.new_cost]}
          [] c.op = "delete" -> others
          [] c.op = "update" ->
               others \cup {[r EXCEPT !.quantity = c.new_qty] :
                               r \in PosRows(c.portfolio_id, c.symbol)}
          [] OTHER -> positions

TradeRowUnitAmount(c) ==
    [portfolio_id |-> c.portfolio_id, symbol |-> c.symbol, side |-> c.side,
     quantity |-> c.quantity, price |-> c.price, amount |-> c.price]

(* amount = float(quantity) * float(price); INSERT INTO paper_trades         *)
TradeRow(c) ==
    [portfolio_id |-> c.portfolio_id, symbol |-> c.symbol, side |-> c.side,
     quantity |-> c.quantity, price |-> c.price, amount |-> c.quantity * c.price]

(* UPDATE paper_trade_proposals SET status = 'approved', executed_trade_id,  *)
(* executed_price WHERE id = :id; the transaction commits on return.         *)
MarkApproved(row, trade_id, price) ==
    [row EXCEPT !.status = "approved", !.executed_trade_id = Some(trade_id),
                !.executed_price = Some(price)]

ApproveCommit(t) ==
    /\ call[t].pc = "commit"
    /\ LET c == call[t]
           trade_id == Len(trades) + 1
       IN  /\ trades' = Append(trades, TradeRow(c))
           /\ positions' = WritePosition(c)
           /\ proposals' = [proposals EXCEPT ![c.id] = MarkApproved(@, trade_id, c.price)]
           /\ tradeOrigin' = Append(tradeOrigin, c.id)
           /\ oracle' = [oracle EXCEPT ![c.portfolio_id] =
                            IF c.side = "buy" THEN @ - c.quantity * c.price
                            ELSE @ + c.quantity * c.price]
           /\ returned' = [returned EXCEPT ![c.id].approved = @ + 1]
    /\ Return(t, "approved")
    /\ UNCHANGED <<portfolios, ledger, unavailable, nonLedger>>

(* An exception inside the with-block (a failed statement, a lost            *)
(* connection) rolls the transaction back: nothing it wrote is kept.         *)
ApproveRaise(t) ==
    /\ call[t].pc # "idle"
    /\ Return(t, "exception")
    /\ UNCHANGED <<tables, tradeOrigin, oracle, returned, unavailable, nonLedger>>

approve_paper_trade_proposal(t) ==
    \/ \E id \in 1..MaxProposals : ApproveBegin(t, id)
    \/ \E id \in 1..MaxProposals : ApproveQuoteRaises(t, id)
    \/ CashLedger(t)
    \/ CashBuys(t)
    \/ CashSells(t)
    \/ ApplySelect(t)
    \/ ApplyWrite(t)
    \/ ApproveCommit(t)
    \/ ApproveRaise(t)

Next ==
    \/ \E t \in Threads : approve_paper_trade_proposal(t)
    \/ \E c \in StartingCash : create_paper_portfolio(c)
    \/ \E id \in 1..MaxPortfolios, a \in CashAmounts : add_paper_cash_ledger(id, a)
    \/ \E id \in 1..MaxPortfolios, s \in Symbols, d \in Sides, q \in Quantities :
          Len(proposals) < MaxProposals /\ paper_trade_propose(id, s, d, q)
    \/ \E id \in 1..MaxProposals : reject_paper_trade_proposal(id)

Spec == Init /\ [][Next]_vars

approve_serial(t) ==
    \/ \E id \in 1..MaxProposals : ApproveBeginTracked(t, id)
    \/ \E id \in 1..MaxProposals : InFlight = 0 /\ ApproveQuoteRaises(t, id)
    \/ CashLedger(t)
    \/ CashBuys(t)
    \/ CashSells(t)
    \/ ApplySelect(t)
    \/ ApplyWrite(t)
    \/ ApproveCommit(t)
    \/ ApproveRaise(t)

NextRetry ==
    \/ \E t \in Threads : approve_serial(t)
    \/ \E c \in StartingCash : create_paper_portfolio(c)
    \/ \E id \in 1..MaxPortfolios, a \in CashAmounts : add_paper_cash_ledger(id, a)
    \/ \E id \in 1..MaxPortfolios, s \in Symbols, d \in Sides, q \in Quantities :
          Len(proposals) < MaxProposals /\ paper_trade_propose(id, s, d, q)
    \/ \E id \in 1..MaxProposals : reject_paper_trade_proposal(id)

SpecRetry == Init /\ [][NextRetry]_vars

(* ---------------------------- tool dispatcher -------------------------- *)
(* tool_registry.TOOLS: name, the properties of input_schema and its    *)
(* "required" list.                                                      *)

TOOLS ==
    <<[name |-> "web.search", properties |-> {"query"},
       required |-> {"query"}],
      [name |-> "web.fetch", properties |-> {"url", "headers"},
       required |-> {"url"}],
      [name |-> "web.fetch_browser", properties |-> {"url", "headers"},
       required |-> {"url"}],
      [name |-> "web.extract", properties |-> {"html"},
       required |-> {"html"}],
      [name |-> "market.quote", properties |-> {"symbol"},
       required |-> {"symbol"}],
      [name |-> "market.history", properties |-> {"symbol", "start", "end", "limit"},
       required |-> {"symbol"}],
      [name |-> "market.fx", properties |-> {"pair"},
       required |-> {"pair"}],
      [name |-> "market.crypto", properties |-> {"symbol", "vs_currency"},
       required |-> {"symbol"}],
      [name |-> "company.profile", properties |-> {"ticker"},
       required |-> {"ticker"}],
      [name |-> "company.financials", properties |-> {"ticker"},
       required |-> {"ticker"}],
      [name |-> "sec.search", properties |-> {"query", "limit"},
       required |-> {"query"}],
      [name |-> "sec.filing", properties |-> {"url"},
       required |-> {"url"}],
      [name |-> "macro.series", properties |-> {"series_id"},
       required |-> {"series_id"}],
      [name |-> "news.search", properties |-> {"query", "max_results"},
       required |-> {"query"}],
      [name |-> "news.extract", properties |-> {"url"},
       required |-> {"url"}],
      [name |-> "nepse.company_details", properties |-> {"symbol"},
       required |-> {"symbol"}],
      [name |-> "nepse.price_volume", properties |-> {},
       required |-> {}],
      [name |-> "nepse.live_market", properties |-> {},
       required |-> {}],
      [name |-> "nepse.symbol_snapshot", properties |-> {"symbol"},
       required |-> {"symbol"}],
      [name |-> "nepse.summary", properties |-> {},
       required |-> {}],
      [name |-> "nepse.index", properties |-> {},
       required |-> {}],
      [name |-> "nepse.subindices", properties |-> {},
       required |-> {}],
      [name |-> "nepse.is_open", properties |-> {},
       required |-> {}],
      [name |-> "nepse.top_gainers", properties |-> {},
       required |-> {}],
      [name |-> "nepse.top_losers", properties |-> {},
       required |-> {}],
      [name |-> "nepse.top_trade_scrips", properties |-> {},
       required |-> {}],
      [name |-> "nepse.top_transaction_scrips", properties |-> {},
       required |-> {}],
      [name |-> "nepse.top_turnover_scrips", properties |-> {},
       required |-> {}],
      [name |-> "nepse.supply_demand", properties |-> {},
       required |-> {}],
      [name |-> "nepse.trade_turnover_transaction", properties |-> {},
       required |-> {}],
      [name |-> "nepse.company_list", properties |-> {},
       required |-> {}],
      [name |-> "nepse.sector_scrips", properties |-> {},
       required |-> {}],
      [name |-> "nepse.security_list", properties |-> {},
       required |-> {}],
      [name |-> "nepse.price_volume_history", properties |-> {"symbol"},
       required |-> {"symbol"}],
      [name |-> "nepse.floorsheet", properties |-> {},
       required |-> {}],
      [name |-> "nepse.floorsheet_of", properties |-> {"symbol"},
       required |-> {"symbol"}],
      [name |-> "nepse.daily_scrip_price_graph", properties |-> {"symbol"},
       required |-> {"symbol"}],
      [name |-> "nepse.daily_index_graph", properties |-> {"kind"},
       required |-> {"kind"}],
      [name |-> "sentiment.analyze", properties |-> {"text"},
       required |-> {"text"}],
      [name |-> "calc.returns", properties |-> {"prices"},
       required |-> {"prices"}],
      [name |-> "calc.risk", properties |-> {"returns"},
       required |-> {"returns"}],
      [name |-> "calc.portfolio", properties |-> {"weights"},
       required |-> {"weights"}],
      [name |-> "memory.put", properties |-> {"content", "tags", "conversation_id"},
       required |-> {"content"}],
      [name |-> "memory.search", properties |-> {"query", "limit", "conversation_id"},
       required |-> {"query"}],
      [name |-> "research.bundle", properties |-> {"ticker", "horizon_days", "news_limit", "filings_limit"},
       required |-> {"ticker"}],
      [name |-> "report.generate", properties |-> {"ticker", "use_llm", "horizon_days"},
       required |-> {"ticker"}],
      [name |-> "compare.prices", properties |-> {"symbols", "start", "end", "horizon_days"},
       required |-> {"symbols"}],
      [name |-> "portfolio.stats", properties |-> {"symbols", "weights", "start", "end", "horizon_days"},
       required |-> {"symbols", "weights"}],
      [name |-> "paper.portfolios", properties |-> {},
       required |-> {}],
      [name |-> "paper.portfolio_create", properties |-> {"name", "starting_cash", "currency"},
       required |-> {}],
      [name |-> "paper.portfolio_summary", properties |-> {"portfolio_id"},
       required |-> {"portfolio_id"}],
      [name |-> "paper.positions", properties |-> {"portfolio_id"},
       required |-> {"portfolio_id"}],
      [name |-> "paper.trades", properties |-> {"portfolio_id", "limit"},
       required |-> {"portfolio_id"}],
      [name |-> "paper.trade_proposals", properties |-> {"portfolio_id", "status"},
       required |-> {"portfolio_id"}],
      [name |-> "paper.trade_propose", properties |-> {"portfolio_id", "symbol", "side", "quantity", "reason", "model"},
       required |-> {"portfolio_id", "symbol", "side", "quantity"}]>>

(* dispatch_tool: what the branch of each tool does with its arguments   *)
(* before it calls the implementation, in the order of the code.          *)

Checks(name) ==
    CASE name = "web.search" ->
           <<<<"query", "nonblank">>>>
      [] name = "web.fetch" ->
           <<<<"url", "nonblank">>, <<"headers", "object_or_none">>>>
      [] name = "web.fetch_browser" ->
           <<<<"url", "nonblank">>, <<"headers", "object_or_none">>>>
      [] name = "web.extract" ->
           <<<<"html", "nonblank">>>>
      [] name = "market.quote" ->
           <<<<"symbol", "nonblank">>>>
      [] name = "market.history" ->
           <<<<"symbol", "nonblank">>, <<"limit", "int_default">>>>
      [] name = "market.fx" ->
           <<<<"pair", "nonblank">>>>
      [] name = "market.crypto" ->
           <<<<"symbol", "nonblank">>>>
      [] name = "company.profile" ->
           <<<<"ticker", "nonblank">>>>
      [] name = "company.financials" ->
           <<<<"ticker", "nonblank">>>>
      [] name = "sec.search" ->
           <<<<"query", "nonblank">>, <<"limit", "int_default">>>>
      [] name = "sec.filing" ->
           <<<<"url", "nonblank">>>>
      [] name = "macro.series" ->
           <<<<"series_id", "nonblank">>>>
      [] name = "news.search" ->
           <<<<"query", "nonblank">>, <<"max_results", "int_default">>>>
      [] name = "news.extract" ->
           <<<<"url", "nonblank">>>>
      [] name = "nepse.company_details" ->
           <<<<"symbol", "nonblank">>>>
      [] name = "nepse.price_volume" ->
           <<>>
      [] name = "nepse.live_market" ->
           <<>>
      [] name = "nepse.symbol_snapshot" ->
           <<<<"symbol", "nonblank">>>>
      [] name = "nepse.summary" ->
           <<>>
      [] name = "nepse.index" ->
           <<>>
      [] name = "nepse.subindices" ->
           <<>>
      [] name = "nepse.is_open" ->
           <<>>
      [] name = "nepse.top_gainers" ->
           <<>>
      [] name = "nepse.top_losers" ->
           <<>>
      [] name = "nepse.top_trade_scrips" ->
           <<>>
      [] name = "nepse.top_transaction_scrips" ->
           <<>>
      [] name = "nepse.top_turnover_scrips" ->
           <<>>
      [] name = "nepse.supply_demand" ->
           <<>>
      [] name = "nepse.trade_turnover_transaction" ->
           <<>>
      [] name = "nepse.company_list" ->
           <<>>
      [] name = "nepse.sector_scrips" ->
           <<>>
      [] name = "nepse.security_list" ->
           <<>>
      [] name = "nepse.price_volume_history" ->
           <<<<"symbol", "nonblank">>>>
      [] name = "nepse.floorsheet" ->
           <<>>
      [] name = "nepse.floorsheet_of" ->
           <<<<"symbol", "nonblank">>>>
      [] name = "nepse.daily_scrip_price_graph" ->
           <<<<"symbol", "nonblank">>>>
      [] name = "nepse.daily_index_graph" ->
           <<<<"kind", "nonblank">>>>
      [] name = "sentiment.analyze" ->
           <<<<"text", "nonblank">>>>
      [] name = "calc.returns" ->
           <<<<"prices", "list_or_empty">>>>
      [] name = "calc.risk" ->
           <<<<"returns", "list_or_empty">>>>
      [] name = "calc.portfolio" ->
           <<<<"weights", "list_or_empty">>>>
      [] name = "memory.put" ->
           <<<<"content", "nonblank">>, <<"tags", "list_or_empty">>>>
      [] name = "memory.search" ->
           <<<<"query", "nonblank">>, <<"limit", "int_default">>>>
      [] name = "research.bundle" ->
           <<<<"ticker", "nonblank">>, <<"horizon_days", "int_default">>, <<"news_limit", "int_default">>, <<"filings_limit", "int_default">>>>
      [] name = "report.generate" ->
           <<<<"ticker", "nonblank">>, <<"horizon_days", "int_default">>>>
      [] name = "compare.prices" ->
           <<<<"symbols", "nonempty_list">>, <<"horizon_days", "int_default">>>>
      [] name = "portfolio.stats" ->
           <<<<"symbols", "list_or_empty">>, <<"weights", "list_or_empty">>, <<"horizon_days", "int_default">>>>
      [] name = "paper.portfolios" ->
           <<>>
      [] name = "paper.portfolio_create" ->
           <<<<"starting_cash", "float_default">>>>
      [] name = "paper.portfolio_summary" ->
           <<<<"portfolio_id", "nonblank">>>>
      [] name = "paper.positions" ->
           <<<<"portfolio_id", "nonblank">>>>
      [] name = "paper.trades" ->
           <<<<"portfolio_id", "nonblank">>, <<"limit", "int_default">>>>
      [] name = "paper.trade_proposals" ->
           <<<<"portfolio_id", "nonblank">>>>
      [] name = "paper.trade_propose" ->
           <<<<"quantity", "positive">>, <<"portfolio_id", "nonblank">>, <<"symbol", "nonblank">>, <<"side", "buy_or_sell">>>>
      [] OTHER -> <<>>

(* the implementation the branch calls first *)

Implementation(name) ==
    CASE name = "web.search" -> "web_search"
      [] name = "web.fetch" -> "web_fetch"
      [] name = "web.fetch_browser" -> "web_fetch_browser"
      [] name = "web.extract" -> "web_extract"
      [] name = "market.quote" -> "market_quote"
      [] name = "market.history" -> "market_history"
      [] name = "market.fx" -> "market_fx"
      [] name = "market.crypto" -> "market_crypto"
      [] name = "company.profile" -> "company_profile"
      [] name = "company.financials" -> "company_financials"
      [] name = "sec.search" -> "sec_search"
      [] name = "sec.filing" -> "sec_filing"
      [] name = "macro.series" -> "macro_series"
      [] name = "news.search" -> "news_search"
      [] name = "news.extract" -> "web_fetch"
      [] name = "nepse.company_details" -> "nepse_company_details"
      [] name = "nepse.price_volume" -> "nepse_price_volume"
      [] name = "nepse.live_market" -> "nepse_live_market"
      [] name = "nepse.symbol_snapshot" -> "nepse_symbol_snapshot"
      [] name = "nepse.summary" -> "nepse_summary"
      [] name = "nepse.index" -> "nepse_index"
      [] name = "nepse.subindices" -> "nepse_subindices"
      [] name = "nepse.is_open" -> "nepse_is_open"
      [] name = "nepse.top_gainers" -> "nepse_top_gainers"
      [] name = "nepse.top_losers" -> "nepse_top_losers"
      [] name = "nepse.top_trade_scrips" -> "nepse_top_trade_scrips"
      [] name = "nepse.top_transaction_scrips" -> "nepse_top_transaction_scrips"
      [] name = "nepse.top_turnover_scrips" -> "nepse_top_turnover_scrips"
      [] name = "nepse.supply_demand" -> "nepse_supply_demand"
      [] name = "nepse.trade_turnover_transaction" -> "nepse_trade_turnover_transaction"
      [] name = "nepse.company_list" -> "nepse_company_list"
      [] name = "nepse.sector_scrips" -> "nepse_sector_scrips"
      [] name = "nepse.security_list" -> "nepse_security_list"
      [] name = "nepse.price_volume_history" -> "nepse_price_volume_history"
      [] name = "nepse.floorsheet" -> "nepse_floorsheet"
      [] name = "nepse.floorsheet_of" -> "nepse_floorsheet_of"
      [] name = "nepse.daily_scrip_price_graph" -> "nepse_daily_scrip_price_graph"
      [] name = "nepse.daily_index_graph" -> "nepse_daily_index_graph"
      [] name = "sentiment.analyze" -> "sentiment_analyze"
      [] name = "calc.returns" -> "calc_returns"
      [] name = "calc.risk" -> "calc_risk"
      [] name = "calc.portfolio" -> "calc_portfolio"
      [] name = "memory.put" -> "memory_put"
      [] name = "memory.search" -> "memory_search"
      [] name = "research.bundle" -> "build_research_bundle"
      [] name = "report.generate" -> "build_research_bundle"
      [] name = "compare.prices" -> "compare_prices"
      [] name = "portfolio.stats" -> "portfolio_stats"
      [] name = "paper.portfolios" -> "paper_list_portfolios"
      [] name = "paper.portfolio_create" -> "paper_create_portfolio"
      [] name = "paper.portfolio_summary" -> "paper_portfolio_summary"
      [] name = "paper.positions" -> "paper_positions"
      [] name = "paper.trades" -> "paper_trades"
      [] name = "paper.trade_proposals" -> "paper_trade_proposals"
      [] name = "paper.trade_propose" -> "paper_trade_propose"
      [] OTHER -> "none"

tool_names == {TOOLS[i].name : i \in 1..Len(TOOLS)}
ToolSpec(name) == TOOLS[CHOOSE i \in 1..Len(TOOLS) : TOOLS[i].name = name]

(* An argument mapping gives some keys a value: "good" is a well-formed      *)
(* non-empty value of the property's type (a non-blank string, a non-empty   *)
(* list, a positive number, 'buy', an object), "empty" the empty value of    *)
(* that type ("", [], 0, {}), "wrong" a non-empty value of another type (a   *)
(* word where a number or a list is expected, a number elsewhere).           *)
ArgValues == {"good", "empty", "wrong"}
Get(arguments, key) == IF key \in DOMAIN arguments THEN arguments[key] ELSE "absent"

Passes(kind, v) ==
    CASE kind = "nonblank" -> v \in {"good", "wrong"}
      [] kind = "buy_or_sell" -> v = "good"
      [] kind = "positive" -> v = "good"
      [] kind = "nonempty_list" -> v = "good"
      [] kind = "list_or_empty" -> v # "wrong"
      [] kind = "object_or_none" -> v # "wrong"
      [] kind = "int_default" -> v # "wrong"
      [] kind = "float_default" -> v # "wrong"
      [] OTHER -> TRUE

(* the branch of a tool: its checks, then the call of the implementation *)
Branch(name, arguments) ==
    IF \E i \in 1..Len(Checks(name)) :
          ~Passes(Checks(name)[i][2], Get(arguments, Checks(name)[i][1]))
    THEN [name |-> name, arguments |-> arguments, raised |-> "ValueError", invoked |-> "none"]
    ELSE [name |-> name, arguments |-> arguments, raised |-> "none",
          invoked |-> Implementation(name)]

DispatchWithoutLookup(name, arguments) == Branch(name, arguments)

DispatchAddCashToo(name, arguments) ==
    IF name = "paper.add_cash"
    THEN [name |-> name, arguments |-> arguments, raised |-> "none",
          invoked |-> "paper_add_cash"]
    ELSE IF name \notin tool_names
    THEN [name |-> name, arguments |-> arguments, raised |-> "KeyError", invoked |-> "none"]
    ELSE Branch(name, arguments)

(* tool_names = {t.name for t in TOOLS}; if name not in tool_names: raise    *)
(* KeyError(f"Unknown tool: {name}")                                         *)
dispatch_tool(name, arguments) ==
    IF name \notin tool_names
    THEN [name |-> name, arguments |-> arguments, raised |-> "KeyError", invoked |-> "none"]
    ELSE Branch(name, arguments)

(* names nobody registered, and a key no schema lists *)
UnknownNames == {"paper.trade_approve", "paper.trade_reject", "paper.add_cash"}
ArgumentKeys(name) ==
    IF name \in tool_names THEN ToolSpec(name).properties \cup {"extra"}
    ELSE {"portfolio_id", "extra"}

(* SpecDispatch: one dispatch_tool call, its name and arguments drawn at the *)
(* start.                                                                    *)
InitDispatch ==
    /\ LedgerInit
    /\ \E name \in tool_names \cup UnknownNames :
          \E keys \in SUBSET ArgumentKeys(name) :
             \E arguments \in [keys -> ArgValues] :
                dispatched = [name |-> name, arguments |-> arguments,
                              raised |-> "pending", invoked |-> "none"]
    /\ HttpInit
    /\ ChatInit

CallDispatch ==
    /\ dispatched.raised = "pending"
    /\ dispatched' = dispatch_tool(dispatched.name, dispatched.arguments)
    /\ UNCHANGED <<ledgerVars, httpVars, chatVars>>

NextDispatch == CallDispatch

SpecDispatch == InitDispatch /\ [][NextDispatch]_vars

(* ---------------------------- http_client ------------------------------ *)
Tick ==
    /\ now < StartTime + MaxTicks
    /\ now' = now + 1
    /\ hret' = NoHret
    /\ UNCHANGED <<_cache, _last_request, _rate_lock, sent, hcall, settings, nonHttp>>

(* http_get up to the cache lookup: if ttl > 0 and the entry of the key has  *)
(* not expired (cached[0] > time.time()) the cached response is returned.    *)
CacheHitAtExpiry(key, ttl) ==
    ttl > 0 /\ _cache[key] # None /\ Val(_cache[key]).expires >= now

CacheHit(key, ttl) ==
    ttl > 0 /\ _cache[key] # None /\ Val(_cache[key]).expires > now

HttpGetBegin(t, url, ttl) ==
    /\ hcall[t].pc = "idle"
    /\ IF CacheHit(_cache_key("GET", url, NoParams), ttl)
       THEN /\ hret' = [t |-> t, url |-> url, outcome |-> "response",
                        response |-> Some(Val(_cache[_cache_key("GET", url, NoParams)]).response),
                        cached |-> TRUE, made |-> 0]
            /\ hcall' = hcall
       ELSE /\ hcall' = [hcall EXCEPT ![t] =
                  [HttpIdle EXCEPT !.pc = IF rate_limit_min_interval <= 0
                                          THEN "request" ELSE "rate_limit",
                                   !.url = url, !.ttl = ttl,
                                   !.retries = settings.http_retry_count]]
            /\ hret' = NoHret
    /\ UNCHANGED <<now, _cache, _last_request, _rate_lock, sent, settings, nonHttp>>

(* _rate_limit: with _rate_lock: last = _last_request.get(host, 0.0);        *)
(* wait = min_interval - (now - last); if wait > 0: time.sleep(wait)         *)
RateWait(host) == rate_limit_min_interval - (now - _last_request[host])

RateEnter(t) ==
    /\ hcall[t].pc = "rate_limit"
    /\ _rate_lock = 0
    /\ _rate_lock' = t
    /\ hcall' = [hcall EXCEPT ![t].pc = "rate_sleep",
                              ![t].wake = IF RateWait(Netloc(hcall[t].url)) > 0
                                          THEN now + RateWait(Netloc(hcall[t].url))
                                          ELSE now]
    /\ hret' = NoHret
    /\ UNCHANGED <<now, _cache, _last_request, sent, settings, nonHttp>>

(* _last_request[host] = time.time(), and the lock is released *)
RateLeave(t) ==
    /\ hcall[t].pc = "rate_sleep"
    /\ now >= hcall[t].wake
    /\ _last_request' = [_last_request EXCEPT ![Netloc(hcall[t].url)] = now]
    /\ _rate_lock' = 0
    /\ hcall' = [hcall EXCEPT ![t].pc = "request"]
    /\ hret' = NoHret
    /\ UNCHANGED <<now, _cache, sent, settings, nonHttp>>

(* sleep_for = backoff_base * (2 ** (attempt - 1)) + random.uniform(0, 0.2) *)
RECURSIVE Pow2(_)
Pow2(n) == IF n <= 0 THEN 1 ELSE 2 * Pow2(n - 1)
SleepFor(attempt, jitter) == http_retry_backoff_seconds * Pow2(attempt - 1) + jitter

Retryable(status) == status \in RetryStatuses

(* _request_with_retries: one requests.request and what follows it.  With    *)
(* retries <= 0 the response is returned whatever its status.                *)
AfterResponseOneMore(c, response, jitter) ==
    IF c.retries <= 0 \/ ~Retryable(response.status)
    THEN [c EXCEPT !.pc = "store", !.response = Some(response), !.made = @ + 1]
    ELSE IF c.attempt > c.retries
    THEN [c EXCEPT !.pc = "store", !.response = Some(response), !.made = @ + 1,
                   !.attempt = @ + 1]
    ELSE [c EXCEPT !.pc = "backoff", !.response = Some(response), !.made = @ + 1,
                   !.attempt = @ + 1,
                   !.wake = now + SleepFor(c.attempt + 1, jitter)]

AfterResponse(c, response, jitter) ==
    IF c.retries <= 0 \/ ~Retryable(response.status)
    THEN [c EXCEPT !.pc = "store", !.response = Some(response), !.made = @ + 1]
    ELSE IF c.attempt + 1 > c.retries
    THEN [c EXCEPT !.pc = "store", !.response = Some(response), !.made = @ + 1,
                   !.attempt = @ + 1]
    ELSE [c EXCEPT !.pc = "backoff", !.response = Some(response), !.made = @ + 1,
                   !.attempt = @ + 1,
                   !.wake = now + SleepFor(c.attempt + 1, jitter)]

Request(t, status, jitter) ==
    /\ hcall[t].pc = "request"
    /\ Len(sent) < MaxSent
    /\ sent' = Append(sent, [host |-> Netloc(hcall[t].url), time |-> now, t |-> t])
    /\ hcall' = [hcall EXCEPT ![t] =
          AfterResponse(@, [id |-> Len(sent) + 1, status |-> status], jitter)]
    /\ hret' = NoHret
    /\ UNCHANGED <<now, _cache, _last_request, _rate_lock, settings, nonHttp>>

(* requests.request raises (timeout, connection error): the exception leaves *)
(* _request_with_retries and http_get.                                       *)
RequestRaises(t) ==
    /\ hcall[t].pc = "request"
    /\ Len(sent) < MaxSent
    /\ sent' = Append(sent, [host |-> Netloc(hcall[t].url), time |-> now, t |-> t])
    /\ hret' = [t |-> t, url |-> hcall[t].url, outcome |-> "exception",
                response |-> None, cached |-> FALSE,
                made |-> hcall[t].made + 1]
    /\ hcall' = [hcall EXCEPT ![t] = HttpIdle]
    /\ UNCHANGED <<now, _cache, _last_request, _rate_lock, settings, nonHttp>>

BackoffDone(t) ==
    /\ hcall[t].pc = "backoff"
    /\ now >= hcall[t].wake
    /\ hcall' = [hcall EXCEPT ![t].pc = "request"]
    /\ hret' = NoHret
    /\ UNCHANGED <<now, _cache, _last_request, _rate_lock, sent, settings, nonHttp>>

(* a store that keeps only the responses whose status is not retried *)
HttpGetStoreOkOnly(t) ==
    /\ hcall[t].pc = "store"
    /\ _cache' = IF hcall[t].ttl > 0 /\ ~Retryable(Val(hcall[t].response).status)
                 THEN [_cache EXCEPT ![_cache_key("GET", hcall[t].url, NoParams)] =
                          Some([expires |-> now + hcall[t].ttl,
                                response |-> Val(hcall[t].response)])]
                 ELSE _cache
    /\ hret' = [t |-> t, url |-> hcall[t].url, outcome |-> "response",
                response |-> hcall[t].response,
                cached |-> FALSE, made |-> hcall[t].made]
    /\ hcall' = [hcall EXCEPT ![t] = HttpIdle]
    /\ UNCHANGED <<now, _last_request, _rate_lock, sent, settings, nonHttp>>

(* if ttl > 0: _cache[key] = (time.time() + ttl, response); return response *)
HttpGetStore(t) ==
    /\ hcall[t].pc = "store"
    /\ _cache' = IF hcall[t].ttl > 0
                 THEN [_cache EXCEPT ![_cache_key("GET", hcall[t].url, NoParams)] =
                          Some([expires |-> now + hcall[t].ttl,
                                response |-> Val(hcall[t].response)])]
                 ELSE _cache
    /\ hret' = [t |-> t, url |-> hcall[t].url, outcome |-> "response",
                response |-> hcall[t].response,
                cached |-> FALSE, made |-> hcall[t].made]
    /\ hcall' = [hcall EXCEPT ![t] = HttpIdle]
    /\ UNCHANGED <<now, _last_request, _rate_lock, sent, settings, nonHttp>>

http_get(t) ==
    \/ \E url \in Urls, ttl \in Ttls : HttpGetBegin(t, url, ttl)
    \/ RateEnter(t)
    \/ RateLeave(t)
    \/ \E status \in Statuses, jitter \in Jitter : Request(t, status, jitter)
    \/ RequestRaises(t)
    \/ BackoffDone(t)
    \/ HttpGetStore(t)

NextHttp ==
    \/ Tick
    \/ \E t \in Threads : http_get(t)

(* the settings are read from the environment when the server starts *)
InitHttp ==
    /\ LedgerInit
    /\ dispatched = NoDispatch
    /\ settings \in [http_retry_count : RetryCounts]
    /\ HttpStart
    /\ ChatInit

SpecHttp == InitHttp /\ [][NextHttp]_vars

(* ------------------------- POST /nepse/chat ----------------------------- *)
(* The text of an error is a sequence of words; `marker in str(exc)` is the  *)
(* search for the marker's words as a contiguous part of it.                 *)
Contains(text, marker) ==
    \E i \in 0..(Len(text) - Len(marker)) :
        SubSeq(text, i + 1, i + Len(marker)) = marker

TooLarge == <<"Request", "too", "large">>
RateLimited == <<"rate_limit_exceeded">>
ErrorTexts ==
    { <<"Error", "413", "Request", "too", "large", "for", "model">>,
      <<"Error", "429", "code", "rate_limit_exceeded">>,
      <<"request", "too", "large">>,
      <<"Request", "large">>,
      <<"Connection", "refused">>,
      <<>> }
Histories == {<<>>, <<"m1">>}
ChatRequests ==
    [history : Histories, use_memory : BOOLEAN, store_memory : BOOLEAN,
     allow_web : BOOLEAN]

nepse_tool_names ==
    <<"nepse.summary", "nepse.index", "nepse.subindices", "nepse.is_open",
      "nepse.symbol_snapshot", "nepse.company_details",
      "nepse.price_volume_history", "nepse.top_gainers", "nepse.top_losers",
      "nepse.top_trade_scrips", "nepse.top_transaction_scrips",
      "nepse.top_turnover_scrips", "nepse.supply_demand",
      "nepse.trade_turnover_transaction", "nepse.daily_scrip_price_graph",
      "nepse.daily_index_graph", "calc.returns", "calc.risk",
      "sentiment.analyze", "paper.portfolios", "paper.portfolio_create",
      "paper.portfolio_summary", "paper.positions", "paper.trades",
      "paper.trade_proposals", "paper.trade_propose">>
web_tool_names ==
    <<"web.search", "web.fetch", "web.fetch_browser", "web.extract",
      "news.search", "news.extract">>
fallback_tools == <<"nepse.summary", "nepse.index", "nepse.symbol_snapshot">>

(* `"Request too large" in str(inner_exc) or "rate_limit_exceeded" in ...` *)
FallsBackOnTooLargeOnly(text) == Contains(text, TooLarge)

FallsBack(text) == Contains(text, TooLarge) \/ Contains(text, RateLimited)

(* the arguments of the two chat_with_tools_custom calls *)
FirstCall(request) ==
    [history |-> request.history,
     tool_names |-> IF request.allow_web THEN nepse_tool_names \o web_tool_names
                    ELSE nepse_tool_names,
     use_memory |-> request.use_memory,
     store_memory |-> request.store_memory,
     explore_links |-> request.allow_web]
FallbackCall(request) ==
    [history |-> <<>>, tool_names |-> fallback_tools, use_memory |-> FALSE,
     store_memory |-> FALSE, explore_links |-> FALSE]

Http500(text) == [chat EXCEPT !.pc = "done", !.outcome = "http_500", !.detail = text]

(* settings, the conversation row and the stored user message; any of the   *)
(* database calls may raise, which the outer handler turns into HTTP 500.   *)
ChatPrepare(has_key, db_error) ==
    /\ chat.pc = "start"
    /\ chat' = IF ~has_key
               THEN [chat EXCEPT !.pc = "done", !.outcome = "http_400",
                                 !.detail = <<"GROQ_API_KEY", "is", "missing">>]
               ELSE IF db_error # None THEN Http500(Val(db_error))
               ELSE [chat EXCEPT !.pc = "first"]
    /\ UNCHANGED <<ledgerVars, dispatched, httpVars, listing, agentVars>>

(* result: <<"reply">> or <<"error", text>> *)
ChatFirst(result) ==
    /\ chat.pc = "first"
    /\ chat' = LET c == [chat EXCEPT !.invocations = Append(@, FirstCall(chat.request)),
                                     !.results = Append(@, result)]
               IN  IF result[1] = "reply" THEN [c EXCEPT !.pc = "reply"]
                   ELSE IF FallsBack(result[2]) THEN [c EXCEPT !.pc = "fallback"]
                   ELSE [c EXCEPT !.pc = "done", !.outcome = "http_500",
                                  !.detail = result[2]]
    /\ UNCHANGED <<ledgerVars, dispatched, httpVars, listing, agentVars>>

ChatFallback(result) ==
    /\ chat.pc = "fallback"
    /\ chat' = LET c == [chat EXCEPT !.invocations = Append(@, FallbackCall(chat.request)),
                                     !.results = Append(@, result)]
               IN  IF result[1] = "reply" THEN [c EXCEPT !.pc = "reply"]
                   ELSE [c EXCEPT !.pc = "done", !.outcome = "http_500",
                                  !.detail = result[2]]
    /\ UNCHANGED <<ledgerVars, dispatched, httpVars, listing, agentVars>>

(* add_message(conversation_id, "assistant", reply); return *)
ChatReply(db_error) ==
    /\ chat.pc = "reply"
    /\ chat' = IF db_error # None THEN Http500(Val(db_error))
               ELSE [chat EXCEPT !.pc = "done", !.outcome = "reply"]
    /\ UNCHANGED <<ledgerVars, dispatched, httpVars, listing, agentVars>>

AgentResults == {<<"reply">>} \cup {<<"error", text>> : text \in ErrorTexts}
DbErrors == {None, Some(<<"connection", "failed">>)}

nepse_chat_endpoint ==
    \/ \E has_key \in BOOLEAN, db_error \in DbErrors : ChatPrepare(has_key, db_error)
    \/ \E result \in AgentResults : ChatFirst(result)
    \/ \E result \in AgentResults : ChatFallback(result)
    \/ \E db_error \in DbErrors : ChatReply(db_error)

InitChat ==
    /\ LedgerInit
    /\ dispatched = NoDispatch
    /\ HttpInit
    /\ \E request \in ChatRequests : chat = [NoChat EXCEPT !.pc = "start", !.request = request]
    /\ listing = NoListing
    /\ AgentInit

NextChat == nepse_chat_endpoint

SpecChat == InitChat /\ [][NextChat]_vars

(* ------------------- dispatch_tool: list and table tools ---------------- *)
ListLimit == 200
SectorLimit == 50

_truncate_list(items, limit) ==
    IF Len(items) <= limit THEN items ELSE SubSeq(items, 1, limit)

(* a dict with the sectors' lists cut and the keys "_truncated", "_limit",  *)
(* whose two values are held in one-element tuples                          *)
_truncate_sector_map(data, limit) ==
    [key \in DOMAIN data \cup {"_truncated", "_limit"} |->
        IF key = "_truncated" THEN <<TRUE>>
        ELSE IF key = "_limit" THEN <<limit>>
        ELSE _truncate_list(data[key], limit)]

ListTools ==
    {"nepse.price_volume", "nepse.live_market", "nepse.company_list",
     "nepse.security_list", "nepse.price_volume_history", "nepse.floorsheet",
     "nepse.floorsheet_of"}
SectorTool == "nepse.sector_scrips"

(* what dispatch_tool returns for the data the tool's function gave *)
WrapList(name, data) ==
    IF name = SectorTool
    THEN _truncate_sector_map(data, SectorLimit)
    ELSE [items |-> _truncate_list(data, ListLimit),
          _truncated |-> Len(data) > ListLimit,
          _limit |-> ListLimit]

(* source data: rows 1..n, of lengths around the limit *)
Rows(n) == [i \in 1..n |-> i]
Lengths(limit) == {0, 1} \cup ((limit - 1)..(limit + MaxOver))
Sectors == {"Banking", "Hydro"}

InitList ==
    /\ LedgerInit
    /\ dispatched = NoDispatch
    /\ HttpInit
    /\ chat = NoChat
    /\ AgentInit
    /\ \/ \E name \in ListTools, n \in Lengths(ListLimit) :
            listing = [name |-> name, data |-> Rows(n), result |-> None]
       \/ \E lens \in [Sectors -> Lengths(SectorLimit)] :
            listing = [name |-> SectorTool,
                       data |-> [k \in Sectors |-> Rows(lens[k])],
                       result |-> None]

CallListTool ==
    /\ listing.result = None
    /\ listing.name # ""
    /\ listing' = [listing EXCEPT !.result = Some(WrapList(listing.name, listing.data))]
    /\ UNCHANGED <<ledgerVars, dispatched, httpVars, chat, agentVars>>

NextList == CallListTool

SpecList == InitList /\ [][NextList]_vars

(* ------------------- llm_agent: _build_args_schema ---------------------- *)
_json_type_to_py_number_int(json_type) ==
    CASE json_type = "string" -> "str"
      [] json_type = "integer" -> "int"
      [] json_type = "number" -> "int"
      [] json_type = "boolean" -> "bool"
      [] json_type = "array" -> "list"
      [] json_type = "object" -> "dict"
      [] OTHER -> "str"

_json_type_to_py(json_type) ==
    CASE json_type = "string" -> "str"
      [] json_type = "integer" -> "int"
      [] json_type = "number" -> "float"
      [] json_type = "boolean" -> "bool"
      [] json_type = "array" -> "list"
      [] json_type = "object" -> "dict"
      [] OTHER -> "str"

(* spec.get("type", "string"): a property's spec holds a type or none *)
DeclaredType(spec) == IF spec = None THEN "string" ELSE Val(spec)

(* fields[name] = (py_type, ...) or (Optional[py_type], None) *)
_build_args_schema(input_schema) ==
    [name \in DOMAIN input_schema.properties |->
        IF name \in input_schema.required
        THEN [type |-> _json_type_to_py(DeclaredType(input_schema.properties[name])),
              optional |-> FALSE, default |-> "..."]
        ELSE [type |-> _json_type_to_py(DeclaredType(input_schema.properties[name])),
              optional |-> TRUE, default |-> "None"]]

JsonTypes == {"string", "integer", "number", "boolean", "array", "object", "null"}
PropertySpecs == {None} \cup {Some(ty) : ty \in JsonTypes}
PropertyNames == {"symbol", "limit"}
RequiredNames == PropertyNames \cup {"side"}
InputSchemas ==
    UNION {[properties : [names -> PropertySpecs], required : SUBSET RequiredNames] :
              names \in SUBSET PropertyNames}

InitSchema ==
    /\ LedgerInit
    /\ dispatched = NoDispatch
    /\ HttpInit
    /\ chat = NoChat
    /\ listing = NoListing
    /\ \E input_schema \in InputSchemas :
          schema = [input_schema |-> input_schema, model |-> None]
    /\ trimmed = NoTrim
    /\ keyed = NoKeys
    /\ quoted = NoQuotes

BuildArgsSchema ==
    /\ schema.input_schema # <<>>
    /\ schema.model = None
    /\ schema' = [schema EXCEPT !.model = Some(_build_args_schema(schema.input_schema))]
    /\ UNCHANGED <<ledgerVars, dispatched, httpVars, chat, listing, trimmed, keyed, quoted>>

NextSchema == BuildArgsSchema

SpecSchema == InitSchema /\ [][NextSchema]_vars

(* SpecAgent: the ledger as the agent reaches it, every step one call of    *)
(* dispatch_tool.  What the call does to the ledger is what the invoked      *)
(* function of paper_tools does; the values of well-formed arguments are     *)
(* drawn when the function is called.                                        *)
AgentTools ==
    {"paper.portfolios", "paper.portfolio_create", "paper.portfolio_summary",
     "paper.positions", "paper.trades", "paper.trade_proposals",
     "paper.trade_propose", "nepse.summary"} \cup UnknownNames
AgentKeys(name) ==
    IF name \in tool_names THEN ToolSpec(name).required \cup {"extra"}
    ELSE {"portfolio_id", "extra"}

Answered(d) ==
    /\ ret' = [op |-> "dispatch", id |-> d.name,
               status |-> IF d.raised # "none" THEN d.raised ELSE d.invoked]
    /\ UNCHANGED <<tables, call, tradeOrigin, oracle, returned, unavailable, nonLedger>>

AgentCalls(d) ==
    CASE d.invoked = "paper_create_portfolio" ->
           \E c \in StartingCash : create_paper_portfolio(c)
      [] d.invoked = "paper_trade_propose" ->
           \E id \in 1..MaxPortfolios, s \in Symbols, side \in Sides, q \in Quantities :
              Len(proposals) < MaxProposals /\ paper_trade_propose(id, s, side, q)
      [] d.invoked = "paper_add_cash" ->
           \E id \in 1..MaxPortfolios, a \in CashAmounts : add_paper_cash_ledger(id, a)
      [] OTHER -> Answered(d)

AgentStep(name, arguments) == AgentCalls(dispatch_tool(name, arguments))

NextAgent ==
    \E name \in AgentTools :
       \E keys \in SUBSET AgentKeys(name) :
          \E arguments \in [keys -> ArgValues] : AgentStep(name, arguments)

SpecAgent == Init /\ [][NextAgent]_vars

(* SpecRoutes: the ledger reached through the HTTP routes as well, one       *)
(* approve call at a time.                                                   *)
approve_single(t) ==
    \/ \E id \in 1..MaxProposals : InFlight = 0 /\ ApproveBegin(t, id)
    \/ \E id \in 1..MaxProposals : InFlight = 0 /\ ApproveQuoteRaises(t, id)
    \/ CashLedger(t)
    \/ CashBuys(t)
    \/ CashSells(t)
    \/ ApplySelect(t)
    \/ ApplyWrite(t)
    \/ ApproveCommit(t)
    \/ ApproveRaise(t)

NextRoutes ==
    \/ \E t \in Threads : approve_single(t)
    \/ \E c \in StartingCash : create_paper_portfolio(c)
    \/ \E id \in 1..MaxPortfolios, a \in CashAmounts : add_paper_cash_ledger(id, a)
    \/ \E id \in 1..MaxPortfolios, s \in Symbols, d \in Sides, q \in Quantities :
          Len(proposals) < MaxProposals /\ paper_trade_propose(id, s, d, q)
    \/ \E id \in 1..MaxProposals : reject_paper_trade_proposal(id)
    \/ \E id \in 1..MaxProposals : paper_trade_reject_endpoint(id)

SpecRoutes == Init /\ [][NextRoutes]_vars

(* ----------------------- llm_agent: _trim_history ------------------------ *)
_MAX_HISTORY_MESSAGES == 20
_MAX_HISTORY_CHARS == 12000

(* history[-n:] *)
Last(seq, n) == IF Len(seq) <= n THEN seq ELSE SubSeq(seq, Len(seq) - n + 1, Len(seq))

(* for item in reversed(trimmed): the index of the oldest item kept, the     *)
(* scan being at item i with total_chars counted so far                      *)
ExceedsOrFills(total_chars, size) == total_chars + size >= _MAX_HISTORY_CHARS

(* if total_chars + size > _MAX_HISTORY_CHARS: break *)
Exceeds(total_chars, size) == total_chars + size > _MAX_HISTORY_CHARS

RECURSIVE Scan(_, _, _)
Scan(items, i, total_chars) ==
    IF i = 0 THEN 1
    ELSE IF Exceeds(total_chars, items[i].chars) THEN i + 1
    ELSE Scan(items, i - 1, total_chars + items[i].chars)

_trim_history(history) ==
    IF history = <<>> THEN <<>>
    ELSE LET items == Last(history, _MAX_HISTORY_MESSAGES)
         IN  SubSeq(items, Scan(items, Len(items), 0), Len(items))

(* histories: n messages of the same length of content, one of them, the    *)
(* k-th from the newest, of another length (k = 0: none); a message is its   *)
(* place in the history and len(content)                                     *)
BaseChars == {0, 600, 6000}
OtherChars == {12000, 12001}
HistoryOf(n, base, k, other) ==
    [i \in 1..n |-> [id |-> i, chars |-> IF k # 0 /\ i = n - k + 1 THEN other ELSE base]]

InitTrim ==
    /\ LedgerInit
    /\ dispatched = NoDispatch
    /\ HttpInit
    /\ chat = NoChat
    /\ listing = NoListing
    /\ schema = NoSchema
    /\ keyed = NoKeys
    /\ quoted = NoQuotes
    /\ \E n \in 0..MaxHistory, base \in BaseChars, other \in OtherChars :
          \E k \in 0..n :
             trimmed = [history |-> HistoryOf(n, base, k, other), kept |-> None]

TrimHistory ==
    /\ trimmed.kept = None
    /\ trimmed' = [trimmed EXCEPT !.kept = Some(_trim_history(trimmed.history))]
    /\ UNCHANGED <<ledgerVars, dispatched, httpVars, chat, listing, schema, keyed, quoted>>

NextTrim == TrimHistory

SpecTrim == InitTrim /\ [][NextTrim]_vars

(* -------------------- paper_tools: portfolio summary -------------------- *)
FracAdd(a, b) == Frac(a.n * b.d + b.n * a.d, a.d * b.d)
FracScale(a, k) == Frac(a.n * k, a.d)

(* one entry of enriched_positions: value = (price if price is not None     *)
(* else avg_cost) * qty; unrealized_pnl = None if price is None else         *)
(* (price - avg_cost) * qty                                                  *)
Enriched(pos, price) ==
    [symbol |-> pos.symbol, quantity |-> pos.quantity, avg_cost |-> pos.avg_cost,
     last_price |-> price,
     market_value |-> IF price # None THEN FracOfInt(Val(price) * pos.quantity)
                      ELSE FracScale(pos.avg_cost, pos.quantity),
     unrealized_pnl |-> IF price = None THEN None
                        ELSE Some(FracScale(FracAdd(FracOfInt(Val(price)),
                                                    FracScale(pos.avg_cost, -1)),
                                            pos.quantity))]

RECURSIVE SumMarketValue(_)
SumMarketValue(rows) ==
    IF rows = {} THEN FracOfInt(0)
    ELSE LET r == CHOOSE x \in rows : TRUE
         IN  FracAdd(r.market_value, SumMarketValue(rows \ {r}))

Summary(id, live, secondary) ==
    LET enriched_positions ==
            {Enriched(pos, _symbol_price(live, secondary, pos.symbol)) :
                pos \in {r \in positions : r.portfolio_id = id}}
        cash == get_paper_cash_balance(id)
        market_value == SumMarketValue(enriched_positions)
    IN  [cash |-> cash, positions |-> enriched_positions,
         market_value |-> market_value,
         total_value |-> FracAdd(FracOfInt(cash), market_value)]

(* get_paper_portfolio, list_paper_positions, get_paper_cash_balance and the *)
(* quote lookups, while no approve call is in flight                         *)
paper_portfolio_summary(id, live, secondary) ==
    /\ InFlight = 0
    /\ ret' = IF id \notin 1..Len(portfolios)
              THEN [op |-> "summary", id |-> id, status |-> "empty",
                    live |-> live, secondary |-> secondary, summary |-> None]
              ELSE [op |-> "summary", id |-> id, status |-> "ok",
                    live |-> live, secondary |-> secondary,
                    summary |-> Some(Summary(id, live, secondary))]
    /\ UNCHANGED <<tables, call, tradeOrigin, oracle, returned, unavailable, nonLedger>>

(* SpecKeys: the cache keys of two requests *)
KeyMethods == {"GET", "POST"}
KeyUrls == {"h1/a", "h1/b"}
ParamTexts == {<<"1">>, <<"2">>, <<"1", "&", "b", "=", "2">>}
ParamMaps == UNION {[names -> ParamTexts] : names \in SUBSET {"a", "b"}}
KeyRequests == [method : KeyMethods, url : KeyUrls, params : ParamMaps]

InitKeys ==
    /\ LedgerInit
    /\ dispatched = NoDispatch
    /\ HttpInit
    /\ chat = NoChat
    /\ listing = NoListing
    /\ schema = NoSchema
    /\ trimmed = NoTrim
    /\ quoted = NoQuotes
    /\ \E first \in KeyRequests, second \in KeyRequests :
          keyed = [requests |-> <<first, second>>, keys |-> None]

BuildKeys ==
    /\ keyed.requests # <<>>
    /\ keyed.keys = None
    /\ keyed' = [keyed EXCEPT !.keys =
          Some([i \in 1..2 |-> _cache_key(keyed.requests[i].method, keyed.requests[i].url,
                                         keyed.requests[i].params)])]
    /\ UNCHANGED <<ledgerVars, dispatched, httpVars, chat, listing, schema, trimmed, quoted>>

NextKeys == BuildKeys

SpecKeys == InitKeys /\ [][NextKeys]_vars

(* SpecPrices: the price propose stores and the price approve executes at,  *)
(* resolved on the same content of the two quote sources.                   *)
InitPrices ==
    /\ LedgerInit
    /\ dispatched = NoDispatch
    /\ HttpInit
    /\ chat = NoChat
    /\ listing = NoListing
    /\ schema = NoSchema
    /\ trimmed = NoTrim
    /\ keyed = NoKeys
    /\ \E live \in Feeds, secondary \in Feeds, symbol \in FeedSymbols :
          quoted = [live |-> live, secondary |-> secondary, symbol |-> symbol,
                    prices |-> None]

ResolvePrices ==
    /\ quoted.symbol # ""
    /\ quoted.prices = None
    /\ quoted' = [quoted EXCEPT !.prices =
          Some([proposed |-> _symbol_price(quoted.live, quoted.secondary, quoted.symbol),
                executed |-> ApprovePrice(quoted.live, quoted.secondary, quoted.symbol)])]
    /\ UNCHANGED <<ledgerVars, dispatched, httpVars, chat, listing, schema, trimmed, keyed>>

NextPrices == ResolvePrices

SpecPrices == InitPrices /\ [][NextPrices]_vars

(* SpecQuotes: as SpecRoutes without the reject route, the quote sources     *)
(* also listing a symbol at price 0 (a security that has not traded).        *)
AnyPrices == QuotePrices \cup {0}
AnyFeedRows == [symbol : FeedSymbols, lastTradedPrice : {None} \cup {Some(v) : v \in AnyPrices}]
AnyFeeds == UNION {[1..n -> AnyFeedRows] : n \in 0..MaxRows}

ApproveBeginAnyQuote(t, id) ==
    /\ InFlight = 0
    /\ BeginCallFrom(t, id, AnyFeeds)
    /\ WithinTrades(t, MaxTrades)
    /\ UNCHANGED <<unavailable, nonLedger>>

approve_any_quote(t) ==
    \/ \E id \in 1..MaxProposals : ApproveBeginAnyQuote(t, id)
    \/ \E id \in 1..MaxProposals : InFlight = 0 /\ ApproveQuoteRaises(t, id)
    \/ CashLedger(t)
    \/ CashBuys(t)
    \/ CashSells(t)
    \/ ApplySelect(t)
    \/ ApplyWrite(t)
    \/ ApproveCommit(t)
    \/ ApproveRaise(t)

NextQuotes ==
    \/ \E t \in Threads : approve_any_quote(t)
    \/ \E c \in StartingCash : create_paper_portfolio(c)
    \/ \E id \in 1..MaxPortfolios, a \in CashAmounts : add_paper_cash_ledger(id, a)
    \/ \E id \in 1..MaxPortfolios, s \in Symbols, d \in Sides, q \in Quantities :
          Len(proposals) < MaxProposals /\ paper_trade_propose(id, s, d, q)
    \/ \E id \in 1..MaxProposals : reject_paper_trade_proposal(id)

SpecQuotes == Init /\ [][NextQuotes]_vars

(* SpecFrame: the ledger after two portfolios were created with 3000 each,  *)
(* 2000 was added to portfolio 1, portfolio 1 bought 5 XYZ at 100 (proposal *)
(* 1) and portfolio 2 bought 5 ABC at 200 (proposal 2); portfolio 1 then    *)
(* trades ABC, one call at a time.                                          *)
SeedProposal(id, symbol, price, trade_id) ==
    [portfolio_id |-> id, symbol |-> symbol, side |-> "buy", quantity |-> 5,
     proposed_price |-> None, status |-> "approved",
     executed_trade_id |-> Some(trade_id), executed_price |-> Some(price)]

SeedCall(id, symbol, price) ==
    [Idle EXCEPT !.portfolio_id = id, !.symbol = symbol, !.side = "buy",
                 !.quantity = 5, !.price = price]

InitFrame ==
    /\ portfolios = <<[starting_cash |-> 3000], [starting_cash |-> 3000]>>
    /\ ledger = <<[portfolio_id |-> 1, amount |-> 2000]>>
    /\ proposals = <<SeedProposal(1, "XYZ", 100, 1), SeedProposal(2, "ABC", 200, 2)>>
    /\ trades = <<TradeRow(SeedCall(1, "XYZ", 100)), TradeRow(SeedCall(2, "ABC", 200))>>
    /\ positions = {[portfolio_id |-> 1, symbol |-> "XYZ", quantity |-> 5,
                     avg_cost |-> BuyCost(0, FracOfInt(0), 5, 100)],
                    [portfolio_id |-> 2, symbol |-> "ABC", quantity |-> 5,
                     avg_cost |-> BuyCost(0, FracOfInt(0), 5, 200)]}
    /\ call = [t \in Threads |-> Idle]
    /\ ret = NoReturn
    /\ tradeOrigin = <<1, 2>>
    /\ oracle = <<3000 + 2000 - 500, 3000 - 1000>>
    /\ returned = <<[approved |-> 1, rejected |-> 0], [approved |-> 1, rejected |-> 0]>>
    /\ unavailable = {}
    /\ dispatched = NoDispatch
    /\ HttpInit
    /\ ChatInit

ApproveBeginFrame(t, id) ==
    /\ InFlight = 0
    /\ BeginCall(t, id)
    /\ WithinTrades(t, 2 + MaxFrameTrades)
    /\ UNCHANGED <<unavailable, nonLedger>>

approve_frame(t) ==
    \/ \E id \in 1..2 + MaxFrameProposals : ApproveBeginFrame(t, id)
    \/ CashLedger(t)
    \/ CashBuys(t)
    \/ CashSells(t)
    \/ ApplySelect(t)
    \/ ApplyWrite(t)
    \/ ApproveCommit(t)

NextFrame ==
    \/ \E t \in Threads : approve_frame(t)
    \/ \E s \in Symbols, d \in Sides, q \in Quantities :
          Len(proposals) < 2 + MaxFrameProposals /\ paper_trade_propose(1, s, d, q)

SpecFrame == InitFrame /\ [][NextFrame]_vars

(* SpecSummary: the trading of SpecFrame, and summaries of the two          *)
(* portfolios and of an unknown one                                          *)
ApproveBeginSummary(t, id) ==
    /\ InFlight = 0
    /\ BeginCall(t, id)
    /\ WithinTrades(t, 2 + MaxSummaryTrades)
    /\ UNCHANGED <<unavailable, nonLedger>>

approve_before_summary(t) ==
    \/ \E id \in 1..2 + MaxSummaryProposals : ApproveBeginSummary(t, id)
    \/ CashLedger(t)
    \/ CashBuys(t)
    \/ CashSells(t)
    \/ ApplySelect(t)
    \/ ApplyWrite(t)
    \/ ApproveCommit(t)

NextSummary ==
    \/ \E t \in Threads : approve_before_summary(t)
    \/ \E s \in Symbols, d \in Sides, q \in Quantities :
          Len(proposals) < 2 + MaxSummaryProposals /\ paper_trade_propose(1, s, d, q)
    \/ \E id \in 1..3, live \in Feeds, secondary \in Feeds :
          paper_portfolio_summary(id, live, secondary)

SpecSummary == InitFrame /\ [][NextSummary]_vars

(* ---------------------------- properties ------------------------------- *)
ProposalIds == 1..Len(proposals)
TradeIds == 1..Len(trades)
TradesOf(id) == {i \in TradeIds : tradeOrigin[i] = id}

(* C1: of the approve calls made on one proposal at most one returns        *)
(* 'approved', and exactly one Trade row is created for that proposal.      *)
C1_SingleApproval ==
    \A id \in ProposalIds :
        /\ returned[id].approved <= 1
        /\ Cardinality(TradesOf(id)) <= 1

(* C2: a proposal changes status at most once: once its status is            *)
(* 'approved' or 'rejected' no step of any approve or reject call changes    *)
(* it again, and a rejected proposal never gets a Trade.                     *)
C2_StatusChangesOnce ==
    [][\A id \in ProposalIds :
          proposals[id].status # "pending"
             => /\ proposals'[id].status = proposals[id].status
                /\ (proposals[id].status = "rejected" => TradesOf(id)' = {})]_vars

(* C3: with non-negative starting cash and non-negative ledger entries the   *)
(* computed cash balance of a portfolio is never negative after approvals    *)
(* of buy proposals, each proposal approved at most once.                    *)
C3_NoOverspend ==
    \A pf \in 1..Len(portfolios) :
        (/\ portfolios[pf].starting_cash >= 0
         /\ \A i \in 1..Len(ledger) : ledger[i].portfolio_id = pf => ledger[i].amount >= 0
         /\ \A i \in TradeIds : trades[i].side = "buy"
         /\ \A id \in ProposalIds : Cardinality(TradesOf(id)) <= 1)
           => get_paper_cash_balance(pf) >= 0

(* C4: get_paper_cash_balance equals the running total that replays the     *)
(* add-cash entries and the approved trades (starting cash plus ledger       *)
(* amounts minus buy amounts plus sell amounts), and an approve that         *)
(* returns not_found, price_unavailable or insufficient_cash, and a reject,  *)
(* leave it unchanged.                                                       *)
FailedStatuses == {"not_found", "price_unavailable", "insufficient_cash", "rejected"}

C4_CashConservation ==
    /\ [](\A pf \in 1..Len(portfolios) : get_paper_cash_balance(pf) = oracle[pf])
    /\ [][ret'.status \in FailedStatuses
             => \A pf \in 1..Len(portfolios) :
                   get_paper_cash_balance(pf)' = get_paper_cash_balance(pf)]_vars

C4_Witness ==
    /\ Len(ledger) >= 1
    /\ \E i, j \in TradeIds : trades[i].side = "buy" /\ trades[j].side = "sell"
    /\ get_paper_cash_balance(1) = oracle[1]
    /\ get_paper_cash_balance(1) # portfolios[1].starting_cash

(* C5: every Trade is referenced as executed_trade_id by exactly one         *)
(* approved proposal, and every approved proposal references one existing    *)
(* Trade with its portfolio, symbol, side and quantity whose price is the    *)
(* proposal's executed_price.                                                *)
ReferencedBy(i) ==
    {id \in ProposalIds : /\ proposals[id].status = "approved"
                          /\ proposals[id].executed_trade_id = Some(i)}

C5_ProposalsMatchTrades ==
    /\ \A i \in TradeIds : Cardinality(ReferencedBy(i)) = 1
    /\ \A id \in ProposalIds :
          proposals[id].status = "approved"
             => /\ proposals[id].executed_trade_id # None
                /\ Val(proposals[id].executed_trade_id) \in TradeIds
                /\ LET tr == trades[Val(proposals[id].executed_trade_id)]
                   IN  /\ tr.portfolio_id = proposals[id].portfolio_id
                       /\ tr.symbol = proposals[id].symbol
                       /\ tr.side = proposals[id].side
                       /\ tr.quantity = proposals[id].quantity
                       /\ proposals[id].executed_price = Some(tr.price)

(* C6: an approve call made on a proposal that an earlier approve has        *)
(* already approved returns not_found, starts no transaction and changes no  *)
(* table (no second Trade, no change of position or cash).                   *)
Starts(t, id) == call[t].pc = "idle" /\ call'[t].pc # "idle" /\ call'[t].id = id

C6_SecondApproveNotFound ==
    [][\A id \in ProposalIds :
          proposals[id].status = "approved"
             => /\ \A t \in Threads : ~Starts(t, id)
                /\ (ret'.op = "approve" /\ ret'.id = id /\ call' = call)
                      => /\ ret'.status = "not_found"
                         /\ tables' = tables]_vars

C6_Witness ==
    /\ ret.op = "approve" /\ ret.status = "not_found"
    /\ ret.id \in ProposalIds
    /\ proposals[ret.id].status = "approved"
    /\ returned[ret.id].approved = 1
    /\ Cardinality(TradesOf(ret.id)) = 1

(* C7: when the balance an approve call computes for a pending buy is less   *)
(* than quantity times the execution price, the call returns                 *)
(* insufficient_cash and the proposal, the trades and the positions stay as  *)
(* they were.                                                                *)
Leaves(t, pc) == call[t].pc = pc /\ call'[t].pc # pc

C7_InsufficientCash ==
    [][\A t \in Threads :
          (/\ Leaves(t, "cash_sells")
           /\ ret'.status # "exception"
           /\ call[t].side = "buy"
           /\ CashRead(t) < call[t].quantity * call[t].price)
             => /\ ret' = [op |-> "approve", id |-> call[t].id,
                           status |-> "insufficient_cash"]
                /\ call'[t] = Idle
                /\ tables' = tables]_vars

C7_Witness ==
    /\ ret.op = "approve" /\ ret.status = "insufficient_cash"
    /\ proposals[ret.id].status = "pending"
    /\ proposals[ret.id].side = "buy"
    /\ get_paper_cash_balance(proposals[ret.id].portfolio_id)
          < proposals[ret.id].quantity * 200

(* C8: when no row of the live source and no row of the secondary source     *)
(* carries a price for the symbol, approve resolves no price; an approve     *)
(* that returns price_unavailable was called on a pending proposal and       *)
(* leaves the proposal pending and the proposals, trades and positions as    *)
(* they were, opening no call; such a proposal can be approved later (the    *)
(* witness).                                                                 *)
NoPrice(feed, symbol) ==
    \A i \in 1..Len(feed) : feed[i].symbol = symbol => feed[i].lastTradedPrice = None

C8_PriceUnavailable ==
    /\ [](\A live \in Feeds, secondary \in Feeds, s \in Symbols :
            (NoPrice(live, s) /\ NoPrice(secondary, s))
               => ApprovePrice(live, secondary, s) = None)
    /\ [][ret'.status = "price_unavailable"
            => /\ ret'.op = "approve"
               /\ ret'.id \in ProposalIds
               /\ proposals[ret'.id].status = "pending"
               /\ proposals'[ret'.id].status = "pending"
               /\ tables' = tables
               /\ call' = call]_vars

C8_Witness ==
    \E id \in unavailable :
        /\ ret = [op |-> "approve", id |-> id, status |-> "approved"]
        /\ proposals[id].status = "approved"
        /\ Cardinality(TradesOf(id)) = 1
        /\ positions # {}

(* C9: every Position row has quantity > 0, and an approved sell of at       *)
(* least the quantity it found held (none held included) stores no row: it   *)
(* removes the row its DELETE matched.                                       *)
Commits(t) == call[t].pc = "commit" /\ ret'.status = "approved" /\ call'[t] = Idle
RowsAfter(id, symbol) == {r \in positions' : r.portfolio_id = id /\ r.symbol = symbol}

C9_PositiveQuantity ==
    /\ [](\A r \in positions : r.quantity > 0)
    /\ [][\A t \in Threads :
            (Commits(t) /\ call[t].side = "sell" /\ call[t].quantity >= call[t].prev_qty)
               => /\ positions' \subseteq positions
                  /\ (call[t].locked
                        => RowsAfter(call[t].portfolio_id, call[t].symbol) = {})]_vars

C9_Witness ==
    /\ Len(trades) = 2
    /\ trades[1].side = "buy" /\ trades[1].quantity = 5
    /\ trades[2].side = "sell" /\ trades[2].quantity = 10
    /\ positions = {}

(* C10: an approved buy of q at p that found quantity Q at average cost C    *)
(* (0 and 0 when it found no position) leaves quantity Q + q at average      *)
(* cost (Q*C + q*p) / (Q + q).                                               *)
C10_BuyAverages ==
    [][\A t \in Threads :
          (Commits(t) /\ call[t].side = "buy")
             => LET c == call[t]
                    Q == c.prev_qty
                    C == c.prev_cost
                IN  /\ Cardinality(RowsAfter(c.portfolio_id, c.symbol)) = 1
                    /\ \A r \in RowsAfter(c.portfolio_id, c.symbol) :
                          /\ r.quantity = Q + c.quantity
                          /\ r.avg_cost.n * C.d * (Q + c.quantity)
                               = (Q * C.n + c.quantity * c.price * C.d) * r.avg_cost.d]_vars

(* buying 10 at 100 then 10 at 200 gives quantity 20 at average cost 150 *)
C10_Witness ==
    /\ Len(trades) = 2
    /\ trades[1] = [portfolio_id |-> 1, symbol |-> "ABC", side |-> "buy",
                    quantity |-> 10, price |-> 100, amount |-> 1000]
    /\ trades[2] = [portfolio_id |-> 1, symbol |-> "ABC", side |-> "buy",
                    quantity |-> 10, price |-> 200, amount |-> 2000]
    /\ positions = {[portfolio_id |-> 1, symbol |-> "ABC", quantity |-> 20,
                     avg_cost |-> [n |-> 150, d |-> 1]]}

(* C12: a reject call, made on the ledger or through the route               *)
(* POST /paper/trades/{proposal_id}/reject, sets a pending proposal to       *)
(* 'rejected' and returns 'rejected', returns 'not_found' and changes        *)
(* nothing on any other proposal, and in neither case changes a trade, a     *)
(* position or the cash balance.                                             *)
C12_Reject ==
    [][ret'.op = "reject"
          => /\ IF RejectMatches(ret'.id)
                THEN /\ ret'.status = "rejected"
                     /\ proposals' = [proposals EXCEPT ![ret'.id].status = "rejected"]
                ELSE /\ ret'.status = "not_found"
                     /\ proposals' = proposals
             /\ trades' = trades
             /\ positions' = positions
             /\ \A pf \in 1..Len(portfolios) :
                   get_paper_cash_balance(pf)' = get_paper_cash_balance(pf)]_vars

(* C13: every approve call returns one of 'approved', 'not_found',           *)
(* 'price_unavailable', 'insufficient_cash' and every reject call one of     *)
(* 'rejected', 'not_found'; a failing price source is reported through the   *)
(* status and never as a raised exception.                                   *)
ApproveStatuses == {"approved", "not_found", "price_unavailable", "insufficient_cash"}
RejectStatuses == {"rejected", "not_found"}

C13_ClosedStatuses ==
    /\ ret.op = "approve" => ret.status \in ApproveStatuses
    /\ ret.op = "reject" => ret.status \in RejectStatuses

(* C14: for every registered tool, an argument mapping that lacks a property *)
(* of the schema's 'required' list makes dispatch_tool raise ValueError      *)
(* before it calls the implementation, and a mapping with every required     *)
(* property well-formed is dispatched whatever other keys it carries.        *)
LacksRequired(name, arguments) ==
    \E k \in ToolSpec(name).required : k \notin DOMAIN arguments

WellFormed(name, arguments) ==
    /\ \A k \in ToolSpec(name).required : Get(arguments, k) = "good"
    /\ \A k \in ToolSpec(name).properties : Get(arguments, k) \in {"good", "absent"}

C14_RequiredValidated ==
    (dispatched.name \in tool_names /\ dispatched.raised # "pending")
       => /\ LacksRequired(dispatched.name, dispatched.arguments)
               => dispatched.raised = "ValueError" /\ dispatched.invoked = "none"
          /\ WellFormed(dispatched.name, dispatched.arguments)
               => /\ dispatched.raised = "none"
                  /\ dispatched.invoked = Implementation(dispatched.name)

(* C15: dispatch_tool called with a name that is no registered tool raises   *)
(* KeyError and invokes no implementation, whatever the arguments.           *)
C15_UnknownTool ==
    (dispatched.name # "" /\ dispatched.name \notin tool_names
        /\ dispatched.raised # "pending")
       => dispatched.raised = "KeyError" /\ dispatched.invoked = "none"

C15_Witness ==
    /\ dispatched.name = "paper.trade_approve"
    /\ DOMAIN dispatched.arguments = {"portfolio_id", "extra"}
    /\ dispatched.raised = "KeyError"

(* C11: an approved sell that leaves a positive remaining quantity changes   *)
(* only the quantity of its position: the row keeps the avg_cost it had      *)
(* before the sell and gets the remaining quantity, and the positions of     *)
(* other symbols and other portfolios are unchanged.                         *)
OtherRows(rows, id, symbol) ==
    {r \in rows : ~(r.portfolio_id = id /\ r.symbol = symbol)}

C11_SellKeepsAvgCost ==
    [][\A t \in Threads :
          (Commits(t) /\ call[t].side = "sell" /\ call[t].new_qty > 0)
             => LET c == call[t]
                IN  /\ OtherRows(positions', c.portfolio_id, c.symbol)
                         = OtherRows(positions, c.portfolio_id, c.symbol)
                    /\ Cardinality(RowsAfter(c.portfolio_id, c.symbol)) = 1
                    /\ \A r \in PosRows(c.portfolio_id, c.symbol) :
                          \A n \in RowsAfter(c.portfolio_id, c.symbol) :
                             /\ n.avg_cost = r.avg_cost
                             /\ n.quantity = r.quantity - c.quantity
                             /\ n.quantity > 0]_vars

(* buying 10 at 100 and 10 at 200, then selling 5, leaves 15 at 150, next to *)
(* the positions of the other symbol and the other portfolio                 *)
C11_Witness ==
    /\ ret.op = "approve" /\ ret.status = "approved"
    /\ proposals[ret.id].side = "sell" /\ proposals[ret.id].quantity = 5
    /\ positions = {[portfolio_id |-> 1, symbol |-> "ABC", quantity |-> 15,
                     avg_cost |-> [n |-> 150, d |-> 1]],
                    [portfolio_id |-> 1, symbol |-> "XYZ", quantity |-> 5,
                     avg_cost |-> [n |-> 100, d |-> 1]],
                    [portfolio_id |-> 2, symbol |-> "ABC", quantity |-> 5,
                     avg_cost |-> [n |-> 200, d |-> 1]]}
(* C16: a call of http_get with a TTL > 0 that starts while the entry of its *)
(* URL has not expired returns the response stored there and sends nothing;  *)
(* one that starts at or after the expiry (or with no entry) goes on to an   *)
(* outbound request, and when that gives a response the entry is replaced by *)
(* (store time + TTL, the response returned).  Nothing else writes the cache.*)
EntryOf(url) == _cache[_cache_key("GET", url, NoParams)]
Fresh(url) == EntryOf(url) # None /\ Val(EntryOf(url)).expires > now

C16_CacheWindow ==
    [][\A t \in Threads :
         /\ (hret'.t = t /\ hret'.cached) =>
               /\ Fresh(hret'.url)
               /\ hret'.response = Some(Val(EntryOf(hret'.url)).response)
               /\ sent' = sent
               /\ _cache' = _cache
         /\ (hcall[t].pc = "idle" /\ hcall'[t].pc # "idle" /\ hcall'[t].ttl > 0) =>
               ~Fresh(hcall'[t].url)
         /\ (hret'.t = t /\ ~hret'.cached) => hret'.made >= 1
         /\ (hcall[t].pc = "store" /\ hcall'[t].pc = "idle" /\ hcall[t].ttl > 0) =>
               _cache'[_cache_key("GET", hcall[t].url, NoParams)] =
                   Some([expires |-> now + hcall[t].ttl,
                         response |-> Val(hret'.response)])
         /\ (_cache' # _cache) => \E u \in Threads : hcall[u].pc = "store"]_vars

(* the entry stored by a first request has expired and been replaced by the  *)
(* response of a second one, which a later call is served from the cache     *)
C16_Witness ==
    /\ hret.cached
    /\ Val(hret.response).id = 2
    /\ now >= StartTime + 3
    /\ sent[2].time >= sent[1].time + 3

(* C17: with rate_limit_min_interval > 0, any two outbound requests sent to  *)
(* the same host, by any threads and counting the retry attempts of a call,  *)
(* are at least the minimum interval apart.                                  *)
C17_MinInterval ==
    rate_limit_min_interval > 0 =>
        \A i, j \in 1..Len(sent) :
            (i < j /\ sent[i].host = sent[j].host) =>
                sent[j].time - sent[i].time >= rate_limit_min_interval

(* C18: _request_with_retries ends after at most retries + 1 outbound        *)
(* requests, exactly one when retries <= 0.  After a request it sleeps and   *)
(* tries again only if the status is 429, 500, 502, 503 or 504 and fewer     *)
(* than retries + 1 requests were made; on any other status it returns that  *)
(* response at once; when the count is exhausted it returns the response of  *)
(* its last request; a request that raises ends the call with the exception  *)
(* and no further request.                                                   *)
Budget(c) == IF c.retries <= 0 THEN 1 ELSE c.retries + 1
Requests(t) == {i \in 1..Len(sent') : sent'[i].t = t}
LastRequest(t) == CHOOSE i \in Requests(t) : \A k \in Requests(t) : k <= i

C18_BoundedRetries ==
    [][\A t \in Threads :
         /\ hcall'[t].made <= Budget(hcall'[t])
         /\ hcall'[t].pc \in {"request", "backoff"} => hcall'[t].made < Budget(hcall'[t])
         /\ (hcall[t].pc = "request" /\ hcall'[t].pc = "backoff") =>
               /\ Retryable(Val(hcall'[t].response).status)
               /\ hcall[t].retries > 0
         /\ (hcall[t].pc = "request" /\ hcall'[t].pc = "store") =>
               /\ Val(hcall'[t].response).id = Len(sent')
               /\ \/ ~Retryable(Val(hcall'[t].response).status)
                  \/ hcall'[t].made = Budget(hcall[t])
         /\ (hcall[t].pc = "request" /\ hcall'[t].pc = "idle") =>
               /\ hret'.t = t /\ hret'.outcome = "exception"
               /\ hret'.made <= Budget(hcall[t])
         /\ (hcall[t].pc = "store" /\ hcall'[t].pc = "idle") =>
               /\ hret'.t = t /\ hret'.outcome = "response"
               /\ Val(hret'.response).id = LastRequest(t)
               /\ hret'.made <= Budget(hcall[t])
               /\ hcall[t].retries <= 0 => hret'.made = 1]_vars

(* a call with two retries allowed has made three requests, each answered    *)
(* with a retryable status, and returns the third response                   *)
C18_Witness ==
    /\ hret.outcome = "response"
    /\ ~hret.cached
    /\ settings.http_retry_count = 2
    /\ hret.made = 3
    /\ Retryable(Val(hret.response).status)
    /\ Val(hret.response).id = 3

(* C19: serving a NEPSE chat request invokes the agent at most twice.  The   *)
(* second invocation is made exactly when the first raised an error whose    *)
(* text contains 'Request too large' or 'rate_limit_exceeded', and it runs   *)
(* with the three fallback tools, an empty history, no memory use or storing *)
(* and no link exploration.  Any other failure of the first invocation, and  *)
(* any failure of the second, ends the request with that error and no        *)
(* further invocation.                                                       *)
Failed(result) == result[1] = "error"
HasMarker(text) ==
    \/ \E i \in 1..Len(text) : i + 2 <= Len(text) /\ text[i] = "Request"
                                 /\ text[i + 1] = "too" /\ text[i + 2] = "large"
    \/ \E i \in 1..Len(text) : text[i] = "rate_limit_exceeded"

C19_SingleFallback ==
    LET n == Len(chat.invocations) IN
    /\ n <= 2
    /\ Len(chat.results) = n
    /\ n >= 1 => chat.invocations[1] = FirstCall(chat.request)
    /\ n = 2 =>
          /\ Failed(chat.results[1]) /\ HasMarker(chat.results[1][2])
          /\ chat.invocations[2].tool_names =
                 <<"nepse.summary", "nepse.index", "nepse.symbol_snapshot">>
          /\ chat.invocations[2].history = <<>>
          /\ ~chat.invocations[2].use_memory
          /\ ~chat.invocations[2].store_memory
          /\ ~chat.invocations[2].explore_links
    /\ (chat.pc = "done" /\ n = 1 /\ Failed(chat.results[1])) =>
          /\ ~HasMarker(chat.results[1][2])
          /\ chat.outcome = "http_500" /\ chat.detail = chat.results[1][2]
    /\ (n = 1 /\ Failed(chat.results[1]) /\ HasMarker(chat.results[1][2])) =>
          chat.pc = "fallback"
    /\ (n = 2 /\ Failed(chat.results[2])) =>
          /\ chat.pc = "done"
          /\ chat.outcome = "http_500" /\ chat.detail = chat.results[2][2]

(* a first invocation with history, memory and link exploration failed with  *)
(* a rate limit error, and the fallback's reply was returned                 *)
C19_Witness ==
    /\ chat.pc = "done" /\ chat.outcome = "reply"
    /\ Len(chat.invocations) = 2
    /\ chat.results[1] = <<"error", <<"Error", "429", "code", "rate_limit_exceeded">>>>
    /\ chat.request.history # <<>>
    /\ chat.request.use_memory /\ chat.request.allow_web

(* C20: for each of the eight list and table tools, every list returned has *)
(* at most _limit items and is a prefix of the source list, and _truncated   *)
(* is true exactly when some source item was dropped.                        *)
IsPrefix(a, b) == Len(a) <= Len(b) /\ \A i \in 1..Len(a) : a[i] = b[i]

C20_TruncationFlag ==
    listing.result # None =>
        LET r == Val(listing.result) IN
        IF listing.name = "nepse.sector_scrips"
        THEN /\ \A k \in DOMAIN listing.data :
                    /\ Len(r[k]) <= r["_limit"][1]
                    /\ IsPrefix(r[k], listing.data[k])
             /\ r["_truncated"][1] <=>
                    \E k \in DOMAIN listing.data : Len(r[k]) < Len(listing.data[k])
        ELSE /\ Len(r.items) <= r._limit
             /\ IsPrefix(r.items, listing.data)
             /\ r._truncated <=> Len(r.items) < Len(listing.data)

(* C21: the model built from an input_schema has exactly one field for each *)
(* declared property; the field of a property listed in 'required' is        *)
(* required, any other is optional with default None; the field type is str  *)
(* for string, int for integer, float for number, bool for boolean, list for *)
(* array, dict for object, and str for any other or missing declared type.   *)
TypeTable ==
    {<<"string", "str">>, <<"integer", "int">>, <<"number", "float">>,
     <<"boolean", "bool">>, <<"array", "list">>, <<"object", "dict">>}
Known == {p[1] : p \in TypeTable}

C21_ArgsSchema ==
    schema.model # None =>
        LET properties == schema.input_schema.properties
            required == schema.input_schema.required
            fields == Val(schema.model)
        IN  /\ DOMAIN fields = DOMAIN properties
            /\ \A name \in DOMAIN properties :
                  /\ fields[name].optional <=> name \notin required
                  /\ name \notin required => fields[name].default = "None"
                  /\ \/ /\ properties[name] # None
                        /\ <<Val(properties[name]), fields[name].type>> \in TypeTable
                     \/ /\ properties[name] = None \/ Val(properties[name]) \notin Known
                        /\ fields[name].type = "str"

(* a model built for a required number property and an optional property    *)
(* with an undeclared type, with a name in 'required' that is no property    *)
C21_Witness ==
    /\ schema.model # None
    /\ schema.input_schema.properties = [symbol |-> None, limit |-> Some("number")]
    /\ schema.input_schema.required = {"limit", "side"}
    /\ Val(schema.model)["limit"] = [type |-> "float", optional |-> FALSE, default |-> "..."]

(* C22: every Trade row ever recorded has side buy or sell, quantity > 0,    *)
(* price > 0 and amount = quantity * price, whatever price the quote sources *)
(* return; and no ledger operation updates or deletes a Trade row.           *)
TradeRowValid(row) ==
    /\ row.side \in {"buy", "sell"}
    /\ row.quantity > 0
    /\ row.price > 0
    /\ row.amount = row.quantity * row.price

C22_TradeRows ==
    /\ [](\A i \in 1..Len(trades) : TradeRowValid(trades[i]))
    /\ [][/\ Len(trades') >= Len(trades)
          /\ \A i \in 1..Len(trades) : trades'[i] = trades[i]]_vars

(* C23: with the symbol's price held at the execution price p, an approved  *)
(* trade leaves cash balance + position quantity * p of the portfolio        *)
(* unchanged, for buys and for sells of any quantity.                        *)
QtyOf(rows) == IF rows = {} THEN 0 ELSE (CHOOSE r \in rows : TRUE).quantity
CashAfter(id) ==
    CashTotal(portfolios'[id].starting_cash, SumLedger(ledger', id, 1),
              SumTrades(trades', id, "buy", 1), SumTrades(trades', id, "sell", 1))

C23_ValueConserved ==
    [][\A t \in Threads :
          Commits(t)
             => LET c == call[t]
                IN  get_paper_cash_balance(c.portfolio_id)
                       + QtyOf(PosRows(c.portfolio_id, c.symbol)) * c.price
                    = CashAfter(c.portfolio_id)
                       + QtyOf(RowsAfter(c.portfolio_id, c.symbol)) * c.price]_vars

(* C24: when no approve call is in flight, every proposal was approved at   *)
(* most once and no sell exceeded the quantity bought before it, the         *)
(* position of each portfolio and symbol holds the sum of its buy trade      *)
(* quantities minus the sum of its sell trade quantities, and there is no    *)
(* position row when that net is 0.                                          *)
RECURSIVE NetQty(_, _, _)
NetQty(id, symbol, n) ==
    IF n = 0 THEN 0
    ELSE NetQty(id, symbol, n - 1)
           + (IF trades[n].portfolio_id = id /\ trades[n].symbol = symbol
              THEN IF trades[n].side = "buy" THEN trades[n].quantity
                   ELSE 0 - trades[n].quantity
              ELSE 0)

DistinctProposals ==
    \A i, j \in 1..Len(tradeOrigin) : i # j => tradeOrigin[i] # tradeOrigin[j]
NoOversell ==
    \A id \in 1..Len(portfolios), symbol \in Symbols, n \in 0..Len(trades) :
        NetQty(id, symbol, n) >= 0

C24_PositionsNet ==
    (InFlight = 0 /\ DistinctProposals /\ NoOversell) =>
        \A id \in 1..Len(portfolios), symbol \in Symbols :
            /\ QtyOf(PosRows(id, symbol)) = NetQty(id, symbol, Len(trades))
            /\ NetQty(id, symbol, Len(trades)) = 0 => PosRows(id, symbol) = {}

(* C25: for every content of the two quote sources the price propose stores *)
(* (_symbol_price) is the price approve would execute at: the live source's  *)
(* price for the symbol if it has a non-null one, otherwise the secondary    *)
(* source's price for the symbol, otherwise null.                            *)
PricesOf(feed, symbol) ==
    {feed[i].lastTradedPrice : i \in {k \in 1..Len(feed) : feed[k].symbol = symbol}} \ {None}

Resolved(live, secondary, symbol) ==
    IF PricesOf(live, symbol) # {} THEN PricesOf(live, symbol)
    ELSE IF PricesOf(secondary, symbol) # {} THEN PricesOf(secondary, symbol)
    ELSE {None}

C25_SamePrice ==
    quoted.prices # None =>
        /\ Val(quoted.prices).proposed = Val(quoted.prices).executed
        /\ Val(quoted.prices).proposed
              \in Resolved(quoted.live, quoted.secondary, quoted.symbol)

(* C26: what _trim_history returns is a contiguous suffix of the history in *)
(* the original order, of at most 20 messages and at most 12000 characters   *)
(* of content in total, and it is the longest such suffix.                   *)
RECURSIVE Chars(_)
Chars(seq) == IF seq = <<>> THEN 0 ELSE seq[1].chars + Chars(Tail(seq))

Fits(seq) == Len(seq) <= 20 /\ Chars(seq) <= 12000

C26_LongestSuffix ==
    trimmed.kept # None =>
        LET history == trimmed.history
            kept == Val(trimmed.kept)
        IN  /\ Len(kept) <= Len(history)
            /\ kept = SubSeq(history, Len(history) - Len(kept) + 1, Len(history))
            /\ Fits(kept)
            /\ \A m \in 0..Len(history) :
                  Fits(SubSeq(history, Len(history) - m + 1, Len(history)))
                     => m <= Len(kept)

(* 22 messages of 600 characters: the 20 newest, 12000 characters, are kept *)
C26_Witness ==
    /\ trimmed.kept # None
    /\ Len(trimmed.history) = 22
    /\ \A i \in 1..22 : trimmed.history[i].chars = 600
    /\ Len(Val(trimmed.kept)) = 20
    /\ Val(trimmed.kept)[1].id = 3

(* C27: the summary of an existing portfolio has total_value = cash +       *)
(* market_value, market_value being the sum over its positions of quantity   *)
(* times the last price, the avg_cost standing for the price when no quote   *)
(* is available, and each position's unrealized P&L is (price used -         *)
(* avg_cost) times quantity; for an unknown portfolio the result is empty.   *)
PriceUsed(pos, live, secondary) ==
    LET quote == Resolved(live, secondary, pos.symbol)
    IN  IF quote = {None} THEN pos.avg_cost
        ELSE FracOfInt(Val(CHOOSE q \in quote : TRUE))

RECURSIVE SumUsed(_, _, _)
SumUsed(rows, live, secondary) ==
    IF rows = {} THEN FracOfInt(0)
    ELSE LET r == CHOOSE x \in rows : TRUE
         IN  FracAdd(FracScale(PriceUsed(r, live, secondary), r.quantity),
                     SumUsed(rows \ {r}, live, secondary))

C27_Summary ==
    ret.op = "summary" =>
        IF ret.id \notin 1..Len(portfolios)
        THEN ret.status = "empty" /\ ret.summary = None
        ELSE LET s == Val(ret.summary)
                 rows == {r \in positions : r.portfolio_id = ret.id}
             IN  /\ s.cash = get_paper_cash_balance(ret.id)
                 /\ s.market_value = SumUsed(rows, ret.live, ret.secondary)
                 /\ s.total_value = FracAdd(FracOfInt(s.cash), s.market_value)
                 /\ {e.symbol : e \in s.positions} = {r.symbol : r \in rows}
                 /\ \A e \in s.positions : \A r \in rows :
                       e.symbol = r.symbol =>
                          e.unrealized_pnl =
                             Some(FracScale(FracAdd(PriceUsed(r, ret.live, ret.secondary),
                                                    FracScale(r.avg_cost, -1)),
                                            r.quantity))

(* C28: no call of dispatch_tool records a Trade, changes a Position, adds   *)
(* a cash-ledger entry or moves a proposal out of 'pending': the calls only  *)
(* create portfolios, create pending proposals and read; the names of        *)
(* approve, reject and add-cash are unknown to the dispatcher.               *)
C28_AgentCannotTrade ==
    /\ [](\A i \in 1..Len(proposals) : proposals[i].status = "pending")
    /\ [](trades = <<>> /\ positions = {} /\ ledger = <<>>)
    /\ [][/\ Len(proposals') >= Len(proposals)
          /\ \A i \in 1..Len(proposals) : proposals'[i] = proposals[i]
          /\ Len(portfolios') >= Len(portfolios)
          /\ \A i \in 1..Len(portfolios) : portfolios'[i] = portfolios[i]
          /\ (ret'.op = "dispatch" /\ ret'.id \in UnknownNames)
                => ret'.status = "KeyError"]_vars

(* the agent created a portfolio and two proposals, and was then refused    *)
(* paper.trade_approve                                                      *)
C28_Witness ==
    /\ Len(portfolios) = 1
    /\ Len(proposals) = 2
    /\ ret.op = "dispatch"
    /\ ret.id = "paper.trade_approve"
    /\ ret.status = "KeyError"

(* C29: two requests that differ in method, URL or in any parameter name or *)
(* value get different cache keys, so a cache hit only returns a response    *)
(* obtained by a request with the same method, URL and params.               *)
C29_KeyInjective ==
    keyed.keys # None =>
        (Val(keyed.keys)[1] = Val(keyed.keys)[2]
            => keyed.requests[1] = keyed.requests[2])

(* C30: http_get stores the final response of a cache miss whatever its     *)
(* status: with ttl > 0 the response left by the exhausted retries of a      *)
(* retried status is stored, and until its expiry a call of the same URL     *)
(* with ttl > 0 returns it with no outbound request and no retry.            *)
ErrorEntry(url) == Fresh(url) /\ Retryable(Val(EntryOf(url)).response.status)
Exhausted(c) ==
    /\ Retryable(Val(c.response).status)
    /\ c.made = (IF c.retries <= 0 THEN 0 ELSE c.retries) + 1

C30_ErrorCached ==
    [][\A t \in Threads :
         /\ (hcall[t].pc = "store" /\ hcall'[t].pc = "idle"
                /\ Retryable(Val(hcall[t].response).status)) =>
               /\ Exhausted(hcall[t])
               /\ hcall[t].ttl > 0 =>
                     _cache'[_cache_key("GET", hcall[t].url, NoParams)] =
                         Some([expires |-> now + hcall[t].ttl,
                               response |-> Val(hcall[t].response)])
         /\ (hcall[t].pc = "idle" /\ hcall'[t].pc # "idle" /\ hcall'[t].ttl > 0) =>
               ~ErrorEntry(hcall'[t].url)
         /\ (hcall[t].pc = "idle" /\ hret'.t = t /\ ErrorEntry(hret'.url)) =>
               /\ hret'.cached
               /\ hret'.made = 0
               /\ hret'.response = Some(Val(EntryOf(hret'.url)).response)
               /\ sent' = sent
               /\ hcall' = hcall]_vars

(* a call retried once got the retried status twice; its second response is  *)
(* what a later call is served from the cache                                *)
C30_Witness ==
    /\ hret.cached
    /\ settings.http_retry_count = 1
    /\ Len(sent) = 2
    /\ Val(hret.response).id = 2
    /\ Retryable(Val(hret.response).status)

====
